---- MODULE Spec2Model ----
(***************************************************************************)
(* A model of the varvm interpreter (src/src/vm.rs): VM construction, the  *)
(* dispatch loop of run(), named-variable resolution, the bump-allocated   *)
(* heap and the call/return convention.                                    *)
(*                                                                         *)
(* Fallible Rust functions (Result<T, String>) are operators returning a   *)
(* record [ok, val, err]; methods taking &mut self return the changed VM   *)
(* record in val (or in the field self when the error leaves effects).     *)
(***************************************************************************)
EXTENDS Integers, Sequences, FiniteSets, TLC

VARIABLES
    program,        \* VM.program: instructions, globals, functions, strings
    ip,             \* VM.ip
    globals,        \* VM.globals: name -> Value
    call_stack,     \* VM.call_stack: sequence of CallFrame, top last
    current_frame,  \* VM.current_frame
    heap,           \* VM.heap: base address -> byte sequence
    next_heap_addr, \* VM.next_heap_addr
    running,        \* VM.running
    pc,             \* where the host is: "new", "ready", "loop", "done", or
                    \* "aborted" after a panic
    last,           \* execute_instruction's locals: current_ip, instruction, result
    result,         \* what run() returned: "none", "Ok(0)" or an error message
    freed,          \* history: the blocks Free has removed, as [addr, size]
    calls,          \* history: per active frame, the Call that created it
    debug_mode,     \* VM.debug_mode
    breakpoints,    \* VM.breakpoints
    debug_callback, \* VM.debug_callback: None, or the host's closure
    overflow_checks, \* the build: TRUE when integer overflow panics (debug)
    ast,            \* the AsmProgram given to Assembler::assemble_program
    assembler,      \* the Assembler
    tool,           \* where the assembler's host is, what it is to read, and
                    \* what assemble_program returned
    encoded,        \* history: the buffers encode returned, each with the
                    \* iteration orders of its function and label tables
    decoded,        \* what decode was given and what it returned
    listing,        \* what disassemble returned and what assembling it returned
    loader,         \* parse_with_includes: the files, included_files, the calls
    lexer           \* the Lexer: input, position, and tokenize's tokens

debugvars == <<debug_mode, breakpoints, debug_callback, overflow_checks>>

vmstate == <<program, ip, globals, call_stack, current_frame, heap,
             next_heap_addr, running, pc, last, result, freed, calls>>

vmvars == <<vmstate, debugvars>>

codecvars == <<encoded, decoded>>

toolvars == <<ast, assembler, tool, codecvars, listing, loader, lexer>>

vars == <<vmvars, toolvars>>

-----------------------------------------------------------------------------
(* Result<T, String> *)

Ok(v) == [ok |-> TRUE, val |-> v, err |-> ""]

Err(e) == [ok |-> FALSE, val |-> 0, err |-> e]

(* Option<T>: None is the string "None", Some(x) is x itself. *)
None == "None"

(* HashMap<String, _>: a function whose domain is the set of keys. *)
EmptyMap == [k \in {} |-> 0]

contains_key(m, k) == k \in DOMAIN m

insert(m, k, v) == [x \in (DOMAIN m) \cup {k} |-> IF x = k THEN v ELSE m[x]]

remove(m, k) == [x \in (DOMAIN m) \ {k} |-> m[x]]

-----------------------------------------------------------------------------
(* types.rs: DataType and Value.  A Value is [t |-> arm, v |-> payload];   *)
(* float payloads are kept to the integers the model uses.                 *)

DataType == {"I8", "I16", "I32", "I64", "U8", "U16", "U32", "U64",
             "F32", "F64", "Ptr", "Void"}

Val(t, v) == [t |-> t, v |-> v]

default_value(dtype) ==
    CASE dtype = "I8"   -> Val("I8", 0)
      [] dtype = "I16"  -> Val("I16", 0)
      [] dtype = "I32"  -> Val("I32", 0)
      [] dtype = "I64"  -> Val("I64", 0)
      [] dtype = "U8"   -> Val("U8", 0)
      [] dtype = "U16"  -> Val("U16", 0)
      [] dtype = "U32"  -> Val("U32", 0)
      [] dtype = "U64"  -> Val("U64", 0)
      [] dtype = "F32"  -> Val("F32", 0)
      [] dtype = "F64"  -> Val("F64", 0)
      [] dtype = "Ptr"  -> Val("Ptr", 0)
      [] dtype = "Void" -> Val("I32", 0)

as_usize(value) ==
    CASE value.t \in {"I8", "I16", "I32", "I64"} /\ value.v >= 0 -> Ok(value.v)
      [] value.t \in {"U8", "U16", "U32", "U64"} -> Ok(value.v)
      [] value.t = "Ptr" -> Ok(value.v)
      [] OTHER -> Err("Cannot convert to usize (negative or invalid type)")

is_zero(value) == value.v = 0

(* Byte width of a DataType, as Load computes it (vm.rs:220-226). *)
byte_count(dtype) ==
    CASE dtype \in {"I8", "U8"} -> 1
      [] dtype \in {"I16", "U16"} -> 2
      [] dtype \in {"I32", "U32", "F32"} -> 4
      [] dtype \in {"I64", "U64", "F64", "Ptr"} -> 8
      [] dtype = "Void" -> 0

(* v.to_le_bytes(): w bytes, least significant first, two's complement.    *)
RECURSIVE to_le_bytes(_, _)
to_le_bytes(v, w) ==
    IF w = 0 THEN <<>> ELSE <<v % 256>> \o to_le_bytes(v \div 256, w - 1)

(* uN::from_le_bytes *)
RECURSIVE from_le_bytes(_)
from_le_bytes(bytes) ==
    IF bytes = <<>> THEN 0 ELSE Head(bytes) + 256 * from_le_bytes(Tail(bytes))

(* iN::from_le_bytes: the top byte carries the sign. *)
RECURSIVE signed_from_le_bytes(_)
signed_from_le_bytes(bytes) ==
    IF Len(bytes) = 1
    THEN (IF Head(bytes) >= 128 THEN Head(bytes) - 256 ELSE Head(bytes))
    ELSE Head(bytes) + 256 * signed_from_le_bytes(Tail(bytes))

(* f32::to_le_bytes and f64::to_le_bytes of the float whose value is the   *)
(* integer v, |v| < 2^20: sign, biased exponent and the leading bits of    *)
(* the fraction, least significant byte first.                             *)
float_exponent(a) == CHOOSE e \in 0..20 : 2 ^ e <= a /\ a < 2 ^ (e + 1)

float_to_bytes(v, w) ==
    IF v = 0 THEN [j \in 1..w |-> 0]
    ELSE LET a == IF v < 0 THEN -v ELSE v
             sign == IF v < 0 THEN 128 ELSE 0
             e == float_exponent(a)
         IN  IF w = 4
             THEN LET E == e + 127
                      m == (a - 2 ^ e) * 2 ^ (23 - e)
                  IN  <<m % 256, (m \div 256) % 256,
                        (E % 2) * 128 + m \div 65536, sign + E \div 2>>
             ELSE LET E == e + 1023
                      m == (a - 2 ^ e) * 2 ^ (20 - e)
                  IN  <<0, 0, 0, 0, m % 256, (m \div 256) % 256,
                        (E % 16) * 16 + m \div 65536, sign + E \div 16>>

(* f32::from_le_bytes and f64::from_le_bytes: the integer the bits denote, *)
(* or, for bits that denote no such integer, a Value that carries the bits.*)
float_from_bytes(t, bytes) ==
    LET w == Len(bytes)
        top == bytes[w]
        sign == IF top >= 128 THEN -1 ELSE 1
        E == IF w = 4 THEN (top % 128) * 2 + bytes[3] \div 128
             ELSE (top % 128) * 16 + bytes[7] \div 16
        m == IF w = 4 THEN (bytes[3] % 128) * 65536 + bytes[2] * 256 + bytes[1]
             ELSE (bytes[7] % 16) * 65536 + bytes[6] * 256 + bytes[5]
        e == E - (IF w = 4 THEN 127 ELSE 1023)
        low == IF w = 4 THEN 0 ELSE bytes[1] + bytes[2] + bytes[3] + bytes[4]
        width == IF w = 4 THEN 23 ELSE 20
    IN  CASE \A j \in 1..w : bytes[j] = 0 -> Val(t, 0)
          [] e \in 0..20 /\ low = 0 /\ m % (2 ^ (width - e)) = 0 ->
                Val(t, sign * (2 ^ e + m \div (2 ^ (width - e))))
          [] OTHER -> [t |-> t, v |-> 0, bits |-> bytes]

(* uN::from_le_bytes and iN::from_le_bytes as a Value: the number when it *)
(* lies in the i32 range, and else a Value that carries the bits.          *)
high_bytes(bytes) == {bytes[j] : j \in 5..Len(bytes)}

unsigned_value(t, bytes) ==
    IF Len(bytes) < 4 \/ (bytes[4] < 128 /\ high_bytes(bytes) \subseteq {0})
    THEN Val(t, from_le_bytes(SubSeq(bytes, 1, IF Len(bytes) < 4 THEN Len(bytes) ELSE 4)))
    ELSE [t |-> t, v |-> 0, bits |-> bytes]

signed_value(t, bytes) ==
    CASE Len(bytes) <= 4 -> Val(t, signed_from_le_bytes(bytes))
      [] Len(bytes) > 4 /\ bytes[4] < 128 /\ high_bytes(bytes) = {0} ->
            Val(t, signed_from_le_bytes(SubSeq(bytes, 1, 4)))
      [] Len(bytes) > 4 /\ bytes[4] >= 128 /\ high_bytes(bytes) = {255} ->
            Val(t, signed_from_le_bytes(SubSeq(bytes, 1, 4)))
      [] OTHER -> [t |-> t, v |-> 0, bits |-> bytes]

(* bytes_to_value reading the signed arms as unsigned. *)
bytes_to_value_unsigned(bytes, dtype) ==
    CASE dtype = "Void" -> Err("Cannot read Void type from memory")
      [] dtype # "Void" /\ Len(bytes) < byte_count(dtype) -> Err("Insufficient bytes")
      [] dtype \in {"F32", "F64"} /\ Len(bytes) >= byte_count(dtype) ->
            Ok(float_from_bytes(dtype, SubSeq(bytes, 1, byte_count(dtype))))
      [] OTHER -> Ok(unsigned_value(dtype, SubSeq(bytes, 1, byte_count(dtype))))

value_to_bytes(value, dtype) ==
    CASE value.t = dtype /\ dtype \in {"F32", "F64"} ->
            Ok(float_to_bytes(value.v, byte_count(dtype)))
      [] value.t = dtype /\ dtype \notin {"F32", "F64", "Void"} ->
            Ok(to_le_bytes(value.v, byte_count(dtype)))
      [] OTHER -> Err("Type mismatch: cannot store")

bytes_to_value(bytes, dtype) ==
    CASE dtype = "Void" -> Err("Cannot read Void type from memory")
      [] dtype # "Void" /\ Len(bytes) < byte_count(dtype) -> Err("Insufficient bytes")
      [] dtype \in {"I8", "I16", "I32", "I64"} /\ Len(bytes) >= byte_count(dtype) ->
            Ok(signed_value(dtype, SubSeq(bytes, 1, byte_count(dtype))))
      [] dtype \in {"F32", "F64"} /\ Len(bytes) >= byte_count(dtype) ->
            Ok(float_from_bytes(dtype, SubSeq(bytes, 1, byte_count(dtype))))
      [] OTHER -> Ok(unsigned_value(dtype, SubSeq(bytes, 1, byte_count(dtype))))

-----------------------------------------------------------------------------
(* types.rs: the operations of Value.  The integers of the checker are the *)
(* i32 range: I32 payloads are exact, the payloads of the wider arms (U32, *)
(* I64, U64, Ptr) are the part of their range that lies in it, and a float *)
(* payload is an integer.  A Value with a third field is one that has no   *)
(* such payload: [t, v, den] is the float v / den (an infinity for         *)
(* den = 0, NaN for 0 / 0) and [t, v, pow] the number 2^pow + v.           *)

i32_MIN == -2147483647 - 1

i32_MAX == -(i32_MIN + 1)

Signed == {"I8", "I16", "I32", "I64"}

Unsigned == {"U8", "U16", "U32", "U64"}

Floats == {"F32", "F64"}

(* iN::BITS / uN::BITS *)
BITS(t) ==
    CASE t \in {"I8", "U8"} -> 8
      [] t \in {"I16", "U16"} -> 16
      [] t \in {"I32", "U32"} -> 32
      [] t \in {"I64", "U64", "Ptr"} -> 64

(* x reduced to the two's complement range of the arm t (x as iN, x as uN) *)
(* for the arms of 8 and 16 bits; on the wider arms every integer of the   *)
(* checker that is not below zero is in range already.                     *)
wrap(t, x) ==
    CASE t \in {"U8", "U16"} -> x % (2 ^ BITS(t))
      [] t \in {"I8", "I16"} ->
            IF x % (2 ^ BITS(t)) >= 2 ^ (BITS(t) - 1)
            THEN (x % (2 ^ BITS(t))) - 2 ^ BITS(t)
            ELSE x % (2 ^ BITS(t))
      [] OTHER -> x

(* i32 a + b leaves the range. *)
add_overflows(a, b) ==
    \/ b > 0 /\ a > i32_MAX - b
    \/ b < 0 /\ a < i32_MIN - b

(* i32::wrapping_add *)
wrapping_add(a, b) ==
    CASE b > 0 /\ a > i32_MAX - b -> ((a - i32_MAX) + (b - i32_MAX)) - 2
      [] b < 0 /\ a < i32_MIN - b -> ((a - i32_MIN) + (b - i32_MIN))
      [] OTHER -> a + b

(* i32::wrapping_neg *)
wrapping_neg(a) == IF a = i32_MIN THEN a ELSE -a

(* Byte k of the two's complement form of a *)
byte_of(a, k) == (a \div (256 ^ k)) % 256

(* i32::wrapping_mul: the low 32 bits of the product of the bytes *)
wrapping_mul(a, b) ==
    LET s0 == byte_of(a, 0) * byte_of(b, 0)
        s1 == byte_of(a, 0) * byte_of(b, 1) + byte_of(a, 1) * byte_of(b, 0)
        s2 == byte_of(a, 0) * byte_of(b, 2) + byte_of(a, 1) * byte_of(b, 1) + byte_of(a, 2) * byte_of(b, 0)
        s3 == byte_of(a, 0) * byte_of(b, 3) + byte_of(a, 1) * byte_of(b, 2)
              + byte_of(a, 2) * byte_of(b, 1) + byte_of(a, 3) * byte_of(b, 0)
        low == (s0 + s1 * 256) % 65536
        high == (((s0 + s1 * 256) \div 65536) + s2 + s3 * 256) % 65536
    IN  IF high >= 32768 THEN (high - 65536) * 65536 + low ELSE high * 65536 + low

abs(a) == IF a < 0 THEN -a ELSE a

(* i32 a * b leaves the range. *)
mul_overflows(a, b) ==
    CASE a = 0 \/ b = 0 -> FALSE
      [] a = i32_MIN -> b # 1
      [] b = i32_MIN -> a # 1
      [] (a < 0) = (b < 0) -> abs(a) > i32_MAX \div abs(b)
      [] OTHER -> /\ abs(a) > i32_MAX \div abs(b)
                  /\ ~(abs(a) = (i32_MAX \div abs(b)) + 1
                       /\ i32_MAX % abs(b) = abs(b) - 1)

(* a + b, a - b, a * b and -a on i32: outside the range the debug build    *)
(* panics and the release build wraps.                                     *)
overflowing(overflows, wrapped, exact, message) ==
    IF ~overflows THEN Ok(Val("I32", exact))
    ELSE IF overflow_checks THEN Err(message) ELSE Ok(Val("I32", wrapped))

add(self, other) ==
    CASE self.t = "I32" /\ other.t = "I32" ->
            IF add_overflows(self.v, other.v)
            THEN overflowing(TRUE, wrapping_add(self.v, other.v), 0,
                             "attempt to add with overflow")
            ELSE Ok(Val("I32", self.v + other.v))
      [] self.t \in {"I64", "F32", "F64"} /\ other.t = self.t ->
            Ok(Val(self.t, self.v + other.v))
      [] OTHER -> Err("Type mismatch in addition")

sub(self, other) ==
    CASE self.t = "I32" /\ other.t = "I32" ->
            IF other.v = i32_MIN
            THEN (IF self.v >= 0
                  THEN overflowing(TRUE, (self.v + i32_MIN), 0,
                                   "attempt to subtract with overflow")
                  ELSE Ok(Val("I32", self.v - i32_MIN)))
            ELSE IF add_overflows(self.v, -other.v)
                 THEN overflowing(TRUE, wrapping_add(self.v, -other.v), 0,
                                  "attempt to subtract with overflow")
                 ELSE Ok(Val("I32", self.v - other.v))
      [] self.t \in {"I64", "F32", "F64"} /\ other.t = self.t ->
            Ok(Val(self.t, self.v - other.v))
      [] OTHER -> Err("Type mismatch in subtraction")

mul(self, other) ==
    CASE self.t = "I32" /\ other.t = "I32" ->
            IF mul_overflows(self.v, other.v)
            THEN overflowing(TRUE, wrapping_mul(self.v, other.v), 0,
                             "attempt to multiply with overflow")
            ELSE Ok(Val("I32", self.v * other.v))
      [] self.t \in {"I64", "F32", "F64"} /\ other.t = self.t ->
            Ok(Val(self.t, self.v * other.v))
      [] OTHER -> Err("Type mismatch in multiplication")

(* a / b and a % b on integers: the quotient is rounded towards zero and   *)
(* the remainder has the sign of a.                                        *)
towards_zero(a, b) ==
    LET q == a \div b IN IF a % b # 0 /\ q < 0 THEN q + 1 ELSE q

quotient(a, b) ==
    CASE b > 0 -> towards_zero(a, b)
      [] b = i32_MIN -> IF a = i32_MIN THEN 1 ELSE 0
      [] OTHER -> -towards_zero(a, -b)

remainder(a, b) == a - quotient(a, b) * b

(* a / b on floats *)
float_quotient(t, a, b) ==
    IF b # 0 /\ a % abs(b) = 0 THEN Val(t, quotient(a, b))
    ELSE [t |-> t, v |-> a, den |-> b]

(* div whose I32 arm returns an error where i32 division overflows. *)
div_checked(self, other) ==
    CASE self.t = "I32" /\ other.t = "I32" /\ other.v # 0 ->
            IF self.v = i32_MIN /\ other.v = -1
            THEN Err("Type mismatch or division by zero")
            ELSE Ok(Val("I32", quotient(self.v, other.v)))
      [] self.t = "I64" /\ other.t = "I64" /\ other.v # 0 ->
            Ok(Val("I64", quotient(self.v, other.v)))
      [] self.t \in {"F32", "F64"} /\ other.t = self.t ->
            Ok(float_quotient(self.t, self.v, other.v))
      [] OTHER -> Err("Type mismatch or division by zero")

(* i32::MIN / -1 and i32::MIN % -1 panic in every build.  i64::MIN is not  *)
(* an integer of the checker, so the same panic of the I64 arms is not     *)
(* reached here.                                                           *)
div(self, other) ==
    CASE self.t = "I32" /\ other.t = "I32" /\ other.v # 0 ->
            IF self.v = i32_MIN /\ other.v = -1
            THEN Err("attempt to divide with overflow")
            ELSE Ok(Val("I32", quotient(self.v, other.v)))
      [] self.t = "I64" /\ other.t = "I64" /\ other.v # 0 ->
            Ok(Val("I64", quotient(self.v, other.v)))
      [] self.t \in {"F32", "F64"} /\ other.t = self.t ->
            Ok(float_quotient(self.t, self.v, other.v))
      [] OTHER -> Err("Type mismatch or division by zero")

(* modulo with arms for the floats. *)
modulo_on_floats(self, other) ==
    CASE self.t = "I32" /\ other.t = "I32" /\ other.v # 0 ->
            IF self.v = i32_MIN /\ other.v = -1
            THEN Err("attempt to calculate the remainder with overflow")
            ELSE Ok(Val("I32", remainder(self.v, other.v)))
      [] self.t \in {"I64", "F32", "F64"} /\ other.t = self.t /\ other.v # 0 ->
            Ok(Val(self.t, remainder(self.v, other.v)))
      [] OTHER -> Err("Type mismatch or modulo by zero")

modulo(self, other) ==
    CASE self.t = "I32" /\ other.t = "I32" /\ other.v # 0 ->
            IF self.v = i32_MIN /\ other.v = -1
            THEN Err("attempt to calculate the remainder with overflow")
            ELSE Ok(Val("I32", remainder(self.v, other.v)))
      [] self.t = "I64" /\ other.t = "I64" /\ other.v # 0 ->
            Ok(Val("I64", remainder(self.v, other.v)))
      [] OTHER -> Err("Type mismatch or modulo by zero")

(* neg without the float arms. *)
neg_integers_only(self) ==
    CASE self.t = "I32" ->
            overflowing(self.v = i32_MIN, self.v, IF self.v = i32_MIN THEN 0 ELSE -self.v,
                        "attempt to negate with overflow")
      [] self.t = "I64" -> Ok(Val("I64", -self.v))
      [] OTHER -> Err("Cannot negate this type")

neg(self) ==
    CASE self.t = "I32" ->
            overflowing(self.v = i32_MIN, self.v, IF self.v = i32_MIN THEN 0 ELSE -self.v,
                        "attempt to negate with overflow")
      [] self.t \in {"I64", "F32", "F64"} -> Ok(Val(self.t, -self.v))
      [] OTHER -> Err("Cannot negate this type")

lt(self, other) ==
    IF self.t \in {"I32", "I64", "F32", "F64"} /\ other.t = self.t
    THEN Ok(self.v < other.v)
    ELSE Err("Type mismatch in comparison")

le(self, other) ==
    IF self.t \in {"I32", "I64", "F32", "F64"} /\ other.t = self.t
    THEN Ok(self.v <= other.v)
    ELSE Err("Type mismatch in comparison")

gt(self, other) ==
    IF self.t \in Signed \cup Unsigned \cup Floats /\ other.t = self.t
    THEN Ok(self.v > other.v)
    ELSE Err("Type mismatch in comparison")

ge(self, other) ==
    IF self.t \in Signed \cup Unsigned \cup Floats /\ other.t = self.t
    THEN Ok(self.v >= other.v)
    ELSE Err("Type mismatch in comparison")

(* The shift amount of shift_left and shift_right *)
shift_amount(other) ==
    CASE other.t = "I32" /\ other.v >= 0 -> Ok(other.v)
      [] other.t = "U32" -> Ok(other.v)
      [] OTHER -> Err("Shift amount must be non-negative integer")

(* a << s on i32, for s < 32: the low 32 - s bits of a move up and the    *)
(* highest of them becomes the sign.                                       *)
shl_i32(a, s) ==
    CASE s = 0 -> a
      [] s = 1 -> wrapping_add(a, a)
      [] s = 31 -> IF a % 2 = 1 THEN i32_MIN ELSE 0
      [] OTHER -> LET m == a % (2 ^ (32 - s)) IN
                  IF m >= 2 ^ (31 - s) THEN (m - 2 ^ (32 - s)) * (2 ^ s)
                  ELSE m * (2 ^ s)

(* a << s on the arm t, for s < BITS(t) *)
shl(t, a, s) == IF t = "I32" THEN shl_i32(a, s) ELSE wrap(t, a * (2 ^ s))

(* a >> s: arithmetic on the signed arms, logical on the unsigned ones *)
shr(a, s) == IF s < 31 THEN a \div (2 ^ s) ELSE IF a < 0 THEN -1 ELSE 0

(* On U32, I64 and U64, a << s is an integer of the checker. *)
fits(a, s) == s = 0 \/ (s < 31 /\ a # i32_MIN /\ abs(a) <= i32_MAX \div (2 ^ s))

(* iN::wrapping_shl(shift): the amount is taken modulo the bit width.  A   *)
(* result on U32, I64 or U64 that is no integer of the checker is kept as  *)
(* the shift [t, v, shl].                                                  *)
wrapping_shl(t, a, shift) ==
    IF t \in {"U32", "I64", "U64"} /\ ~fits(a, shift % BITS(t))
    THEN [t |-> t, v |-> a, shl |-> shift % BITS(t)]
    ELSE Val(t, shl(t, a, shift % BITS(t)))

wrapping_shr(t, a, shift) == Val(t, shr(a, shift % BITS(t)))

(* iN::checked_shl in the place of wrapping_shl: an amount of the bit      *)
(* width or more is an error.                                              *)
shift_left_checked(self, other) ==
    LET shift == shift_amount(other) IN
    IF ~shift.ok THEN shift
    ELSE IF self.t \in Signed \cup Unsigned /\ shift.val < BITS(self.t)
         THEN Ok(wrapping_shl(self.t, self.v, shift.val))
         ELSE Err("Invalid type for shift left")

shift_left(self, other) ==
    LET shift == shift_amount(other) IN
    IF ~shift.ok THEN shift
    ELSE IF self.t \in Signed \cup Unsigned
         THEN Ok(wrapping_shl(self.t, self.v, shift.val))
         ELSE Err("Invalid type for shift left")

shift_right(self, other) ==
    LET shift == shift_amount(other) IN
    IF ~shift.ok THEN shift
    ELSE IF self.t \in Signed \cup Unsigned
         THEN Ok(wrapping_shr(self.t, self.v, shift.val))
         ELSE Err("Invalid type for shift right")

(* v as iN / v as uN for an integer or a pointer v: two's complement       *)
(* truncation.                                                             *)
truncated(t, v) ==
    IF t \in {"U32", "U64"} /\ v < 0 THEN [t |-> t, v |-> v, pow |-> BITS(t)]
    ELSE Val(t, wrap(t, v))

(* v as iN / v as uN for a float v: NaN is 0, the rest is rounded towards  *)
(* zero and saturates at the bounds of the arm.                            *)
saturated(t, self) ==
    LET x == CASE "den" \notin DOMAIN self -> self.v
               [] "den" \in DOMAIN self /\ self.den # 0 -> quotient(self.v, self.den)
               [] OTHER -> IF self.v = 0 THEN 0
                           ELSE IF self.v > 0 THEN i32_MAX ELSE i32_MIN
    IN  CASE t \in Unsigned /\ x < 0 -> 0
          [] t \in {"I8", "I16"} /\ x < -(2 ^ (BITS(t) - 1)) -> -(2 ^ (BITS(t) - 1))
          [] t \in {"I8", "I16"} /\ x > 2 ^ (BITS(t) - 1) - 1 -> 2 ^ (BITS(t) - 1) - 1
          [] t \in {"U8", "U16"} /\ x > 2 ^ BITS(t) - 1 -> 2 ^ BITS(t) - 1
          [] OTHER -> x

(* as_i8 .. as_u64 *)
as_integer(self, t) ==
    IF self.t \in Floats THEN Ok(Val(t, saturated(t, self)))
    ELSE Ok(truncated(t, self.v))

(* The spacing of the f32 values at the magnitude a: 1 below 2^24. *)
RECURSIVE spacing(_, _)
spacing(a, q) == IF a \div q < 16777216 THEN q ELSE spacing(a, 2 * q)

(* v as f32 for an integer v: the nearest f32, ties to the even one. *)
rounded_f32(v) ==
    IF v = i32_MIN \/ abs(v) < 16777216 THEN Val("F32", v)
    ELSE LET a == abs(v)
             q == spacing(a, 1)
             lo == (a \div q) * q
             up == 2 * (a - lo) > q \/ (2 * (a - lo) = q /\ (a \div q) % 2 = 1)
         IN  CASE ~up -> Val("F32", IF v < 0 THEN -lo ELSE lo)
               [] up /\ lo > i32_MAX - q ->
                     (IF v < 0 THEN Val("F32", i32_MIN)
                      ELSE [t |-> "F32", v |-> 0, pow |-> 31])
               [] OTHER -> Val("F32", IF v < 0 THEN -(lo + q) ELSE lo + q)

(* as_f32, as_f64 *)
as_float(self, t) ==
    CASE DOMAIN self # {"t", "v"} -> Ok([self EXCEPT !.t = t])
      [] DOMAIN self = {"t", "v"} /\ t = "F32" -> Ok(rounded_f32(self.v))
      [] OTHER -> Ok(Val(t, self.v))

(* cast whose Ptr arm converts like the integer arms. *)
cast_total(self, target_type) ==
    CASE target_type \in Signed \cup Unsigned \cup {"Ptr"} -> as_integer(self, target_type)
      [] target_type \in Floats -> as_float(self, target_type)
      [] target_type = "Void" -> Err("Cannot cast to Void type")

cast(self, target_type) ==
    CASE target_type \in Signed \cup Unsigned -> as_integer(self, target_type)
      [] target_type \in Floats -> as_float(self, target_type)
      [] target_type = "Ptr" ->
            IF as_usize(self).ok THEN Ok(Val("Ptr", as_usize(self).val))
            ELSE as_usize(self)
      [] target_type = "Void" -> Err("Cannot cast to Void type")

-----------------------------------------------------------------------------
(* types.rs: Operand *)

Variable(name) == [k |-> "Variable", name |-> name]

Immediate(val) == [k |-> "Immediate", val |-> val]

(* vm.rs: CallFrame *)
CallFrame(function_name, return_ip, locals, return_dest, args) ==
    [function_name |-> function_name, return_ip |-> return_ip, locals |-> locals,
     return_dest |-> return_dest, args |-> args]

(* The VM as one record, for the methods that take self. *)
Self == [program |-> program, ip |-> ip, globals |-> globals,
         call_stack |-> call_stack, current_frame |-> current_frame,
         heap |-> heap, next_heap_addr |-> next_heap_addr, running |-> running]

(* An error raised after self was already changed keeps the changed self. *)
ErrAt(self, e) == [ok |-> FALSE, val |-> self, err |-> e]

-----------------------------------------------------------------------------
(* Variable resolution *)

(* get_variable looking in the globals before the locals. *)
get_variable_globals_first(self, name) ==
    IF contains_key(self.globals, name)
    THEN Ok(self.globals[name])
    ELSE IF contains_key(self.current_frame.locals, name)
         THEN Ok(self.current_frame.locals[name])
         ELSE Err("Unknown variable: " \o name)

(* get_variable with dynamic scoping: a name the frame does not have is   *)
(* looked up in the frame of the caller before the globals.               *)
get_variable_dynamic(self, name) ==
    IF contains_key(self.current_frame.locals, name)
    THEN Ok(self.current_frame.locals[name])
    ELSE IF /\ self.call_stack # <<>>
            /\ contains_key(self.call_stack[Len(self.call_stack)].locals, name)
         THEN Ok(self.call_stack[Len(self.call_stack)].locals[name])
         ELSE IF contains_key(self.globals, name)
              THEN Ok(self.globals[name])
              ELSE Err("Unknown variable: " \o name)

get_variable(self, name) ==
    IF contains_key(self.current_frame.locals, name)
    THEN Ok(self.current_frame.locals[name])
    ELSE IF contains_key(self.globals, name)
         THEN Ok(self.globals[name])
         ELSE Err("Unknown variable: " \o name)

(* set_variable writing the global when both a local and a global exist. *)
set_variable_globals_first(self, name, value) ==
    IF contains_key(self.globals, name)
    THEN Ok([self EXCEPT !.globals = insert(@, name, value)])
    ELSE IF contains_key(self.current_frame.locals, name)
         THEN Ok([self EXCEPT !.current_frame.locals = insert(@, name, value)])
         ELSE ErrAt(self, "Unknown variable: " \o name)

set_variable(self, name, value) ==
    IF contains_key(self.current_frame.locals, name)
    THEN Ok([self EXCEPT !.current_frame.locals = insert(@, name, value)])
    ELSE IF contains_key(self.globals, name)
         THEN Ok([self EXCEPT !.globals = insert(@, name, value)])
         ELSE ErrAt(self, "Unknown variable: " \o name)

resolve_operand(self, operand) ==
    CASE operand.k = "Variable"  -> get_variable(self, operand.name)
      [] operand.k = "Immediate" -> Ok(operand.val)
      [] operand.k = "Label"     -> Err("Cannot resolve label as value")
      [] operand.k = "Type"      -> Err("Cannot resolve type as value")

-----------------------------------------------------------------------------
(* Heap *)

(* The blocks of the heap that contain addr.  The allocator never makes two *)
(* blocks overlap, so the HashMap's iteration order cannot change the      *)
(* block found.  The heap errors are modelled without the address that    *)
(* ends their message.                                                     *)
Containing(self, addr) ==
    {b \in DOMAIN self.heap : addr >= b /\ addr < b + Len(self.heap[b])}

find_heap_allocation(self, addr) ==
    IF Containing(self, addr) # {}
    THEN LET base_addr == CHOOSE b \in Containing(self, addr) : TRUE
         IN  Ok(<<base_addr, addr - base_addr>>)
    ELSE Err("Invalid pointer")

load_bytes_from_heap(self, addr, count) ==
    LET found == find_heap_allocation(self, addr) IN
    IF ~found.ok THEN Err(found.err)
    ELSE LET allocation == self.heap[found.val[1]]
             offset == found.val[2]
         IN  IF offset + count > Len(allocation)
             THEN Err("Read out of bounds")
             ELSE Ok(SubSeq(allocation, offset + 1, offset + count))

(* store_bytes_to_heap without its bounds check: the bytes that fit are    *)
(* written and the rest dropped.                                           *)
store_bytes_to_heap_unchecked(self, addr, bytes) ==
    LET found == find_heap_allocation(self, addr) IN
    IF ~found.ok THEN ErrAt(self, found.err)
    ELSE LET base_addr == found.val[1]
             allocation == self.heap[base_addr]
             offset == found.val[2]
         IN  Ok([self EXCEPT !.heap[base_addr] =
                    [i \in 1..Len(allocation) |->
                        IF i > offset /\ i <= offset + Len(bytes)
                        THEN bytes[i - offset] ELSE allocation[i]]])

store_bytes_to_heap(self, addr, bytes) ==
    LET found == find_heap_allocation(self, addr) IN
    IF ~found.ok THEN ErrAt(self, found.err)
    ELSE LET base_addr == found.val[1]
             allocation == self.heap[base_addr]
             offset == found.val[2]
         IN  IF offset + Len(bytes) > Len(allocation)
             THEN ErrAt(self, "Write out of bounds")
             ELSE Ok([self EXCEPT !.heap[base_addr] =
                        [i \in 1..Len(allocation) |->
                            IF i > offset /\ i <= offset + Len(bytes)
                            THEN bytes[i - offset] ELSE allocation[i]]])

-----------------------------------------------------------------------------
(* execute_one, one operator per arm of the match.  An instruction is a    *)
(* record whose field op names the OpCode variant; an absent Option<Operand>*)
(* is NoOperand, an absent Option<String> is None.                         *)

NoOperand == [k |-> "None"]

exec_CreateLocal(self, i) ==
    Ok([self EXCEPT !.current_frame.locals = insert(@, i.name, default_value(i.dtype))])

exec_CreateGlobal(self, i) ==
    Ok([self EXCEPT !.globals = insert(@, i.name, default_value(i.dtype))])

exec_DeleteLocal(self, i) ==
    Ok([self EXCEPT !.current_frame.locals = remove(@, i.name)])

exec_SetVar(self, i) ==
    LET val == resolve_operand(self, i.value) IN
    IF ~val.ok THEN ErrAt(self, val.err)
    ELSE set_variable(self, i.dest, val.val)

exec_CopyVar(self, i) ==
    LET val == get_variable(self, i.source) IN
    IF ~val.ok THEN ErrAt(self, val.err)
    ELSE set_variable(self, i.dest, val.val)

(* Alloc that forgets to advance next_heap_addr. *)
exec_Alloc_no_advance(self, i) ==
    LET sizev == resolve_operand(self, i.size) IN
    IF ~sizev.ok THEN ErrAt(self, sizev.err)
    ELSE LET size == as_usize(sizev.val) IN
         IF ~size.ok THEN ErrAt(self, size.err)
         ELSE LET addr == self.next_heap_addr
                  s1 == [self EXCEPT
                           !.heap = insert(@, addr, [j \in 1..size.val |-> 0])]
              IN  set_variable(s1, i.dest, Val("Ptr", addr))

exec_Alloc(self, i) ==
    LET sizev == resolve_operand(self, i.size) IN
    IF ~sizev.ok THEN ErrAt(self, sizev.err)
    ELSE LET size == as_usize(sizev.val) IN
         IF ~size.ok THEN ErrAt(self, size.err)
         ELSE LET addr == self.next_heap_addr
                  s1 == [self EXCEPT
                           !.heap = insert(@, addr, [j \in 1..size.val |-> 0]),
                           !.next_heap_addr = @ + size.val]
              IN  set_variable(s1, i.dest, Val("Ptr", addr))

exec_Free(self, i) ==
    LET ptr == get_variable(self, i.ptr) IN
    IF ~ptr.ok THEN ErrAt(self, ptr.err)
    ELSE LET addr == as_usize(ptr.val) IN
         IF ~addr.ok THEN ErrAt(self, addr.err)
         ELSE Ok([self EXCEPT !.heap = remove(@, addr.val)])

exec_Load(self, i) ==
    LET ptr == get_variable(self, i.ptr) IN
    IF ~ptr.ok THEN ErrAt(self, ptr.err)
    ELSE LET addr == as_usize(ptr.val) IN
         IF ~addr.ok THEN ErrAt(self, addr.err)
         ELSE LET bytes == load_bytes_from_heap(self, addr.val, byte_count(i.dtype)) IN
              IF ~bytes.ok THEN ErrAt(self, bytes.err)
              ELSE LET value == bytes_to_value(bytes.val, i.dtype) IN
                   IF ~value.ok THEN ErrAt(self, value.err)
                   ELSE set_variable(self, i.dest, value.val)

exec_Store(self, i) ==
    LET ptr == get_variable(self, i.ptr) IN
    IF ~ptr.ok THEN ErrAt(self, ptr.err)
    ELSE LET addr == as_usize(ptr.val) IN
         IF ~addr.ok THEN ErrAt(self, addr.err)
         ELSE LET value == get_variable(self, i.source) IN
              IF ~value.ok THEN ErrAt(self, value.err)
              ELSE LET bytes == value_to_bytes(value.val, i.dtype) IN
                   IF ~bytes.ok THEN ErrAt(self, bytes.err)
                   ELSE store_bytes_to_heap(self, addr.val, bytes.val)

(* FuncBegin as a no-op, so that the body is entered by falling through. *)
exec_FuncBegin_falls_through(self, i) ==
    IF ~contains_key(self.program.functions, i.name)
    THEN ErrAt(self, "Unknown function: " \o i.name)
    ELSE Ok(self)

exec_FuncBegin(self, i) ==
    IF ~contains_key(self.program.functions, i.name)
    THEN ErrAt(self, "Unknown function: " \o i.name)
    ELSE Ok([self EXCEPT !.ip = self.program.functions[i.name].end_ip + 1])

exec_Call(self, i) ==
    IF ~contains_key(self.program.functions, i.func)
    THEN ErrAt(self, "Unknown function: " \o i.func)
    ELSE LET func_def == self.program.functions[i.func]
             resolved == [j \in 1..Len(i.args) |-> resolve_operand(self, i.args[j])]
             failed == {j \in 1..Len(i.args) : ~resolved[j].ok}
         IN  IF failed # {}
             THEN ErrAt(self, resolved[CHOOSE j \in failed : \A m \in failed : j <= m].err)
             ELSE LET arg_values == [j \in 1..Len(i.args) |-> resolved[j].val]
                      frame == [self.current_frame EXCEPT
                                  !.return_ip = self.ip,
                                  !.return_dest = i.result]
                  IN  Ok([self EXCEPT
                            !.current_frame = CallFrame(i.func, 0, EmptyMap, None, arg_values),
                            !.call_stack = Append(@, frame),
                            !.ip = func_def.start_ip + 1])

(* Return writing the value before the caller's frame is restored. *)
exec_Return_into_callee(self, i) ==
    LET ret_val == IF i.value = NoOperand THEN Ok(NoOperand)
                   ELSE resolve_operand(self, i.value)
    IN
    IF ~ret_val.ok THEN ErrAt(self, ret_val.err)
    ELSE IF self.call_stack # <<>>
         THEN LET frame == self.call_stack[Len(self.call_stack)]
                  written == IF i.value # NoOperand /\ frame.return_dest # None
                             THEN set_variable(self, frame.return_dest, ret_val.val)
                             ELSE Ok(self)
              IN  [written EXCEPT !.val =
                     [@ EXCEPT !.call_stack = SubSeq(@, 1, Len(@) - 1),
                               !.ip = frame.return_ip,
                               !.current_frame = frame]]
         ELSE Ok([self EXCEPT !.running = FALSE])

(* Return leaving the dispatch loop running when the call stack is empty. *)
exec_Return_keeps_running(self, i) ==
    LET ret_val == IF i.value = NoOperand THEN Ok(NoOperand)
                   ELSE resolve_operand(self, i.value)
    IN
    IF ~ret_val.ok THEN ErrAt(self, ret_val.err)
    ELSE IF self.call_stack # <<>>
         THEN LET frame == self.call_stack[Len(self.call_stack)]
                  s1 == [self EXCEPT
                           !.call_stack = SubSeq(@, 1, Len(@) - 1),
                           !.ip = frame.return_ip,
                           !.current_frame = frame]
              IN  IF i.value # NoOperand /\ frame.return_dest # None
                  THEN set_variable(s1, frame.return_dest, ret_val.val)
                  ELSE Ok(s1)
         ELSE Ok(self)

(* Return into the caller's frame with the locals of the returning frame. *)
exec_Return_keeps_locals(self, i) ==
    LET ret_val == IF i.value = NoOperand THEN Ok(NoOperand)
                   ELSE resolve_operand(self, i.value)
    IN
    IF ~ret_val.ok THEN ErrAt(self, ret_val.err)
    ELSE IF self.call_stack # <<>>
         THEN LET frame == self.call_stack[Len(self.call_stack)]
                  s1 == [self EXCEPT
                           !.call_stack = SubSeq(@, 1, Len(@) - 1),
                           !.ip = frame.return_ip,
                           !.current_frame =
                              [frame EXCEPT !.locals = self.current_frame.locals]]
              IN  IF i.value # NoOperand /\ frame.return_dest # None
                  THEN set_variable(s1, frame.return_dest, ret_val.val)
                  ELSE Ok(s1)
         ELSE Ok([self EXCEPT !.running = FALSE])

exec_Return(self, i) ==
    LET ret_val == IF i.value = NoOperand THEN Ok(NoOperand)
                   ELSE resolve_operand(self, i.value)
    IN
    IF ~ret_val.ok THEN ErrAt(self, ret_val.err)
    ELSE IF self.call_stack # <<>>
         THEN LET frame == self.call_stack[Len(self.call_stack)]
                  s1 == [self EXCEPT
                           !.call_stack = SubSeq(@, 1, Len(@) - 1),
                           !.ip = frame.return_ip,
                           !.current_frame = frame]
              IN  IF i.value # NoOperand /\ frame.return_dest # None
                  THEN set_variable(s1, frame.return_dest, ret_val.val)
                  ELSE Ok(s1)
         ELSE Ok([self EXCEPT !.running = FALSE])

(* PopArg taking the last argument instead of the first. *)
exec_PopArg_from_back(self, i) ==
    IF self.current_frame.args # <<>>
    THEN Ok([self EXCEPT
               !.current_frame.locals =
                  insert(@, i.dest, self.current_frame.args[Len(self.current_frame.args)]),
               !.current_frame.args = SubSeq(@, 1, Len(@) - 1)])
    ELSE ErrAt(self, "No arguments to pop")

(* PopArg creating the local with a default when there is no argument. *)
exec_PopArg_defaulting(self, i) ==
    IF self.current_frame.args # <<>>
    THEN Ok([self EXCEPT
               !.current_frame.locals = insert(@, i.dest, Head(self.current_frame.args)),
               !.current_frame.args = Tail(@)])
    ELSE Ok([self EXCEPT !.current_frame.locals = insert(@, i.dest, Val("I32", 0))])

exec_PopArg(self, i) ==
    IF self.current_frame.args # <<>>
    THEN Ok([self EXCEPT
               !.current_frame.locals = insert(@, i.dest, Head(self.current_frame.args)),
               !.current_frame.args = Tail(@)])
    ELSE ErrAt(self, "No arguments to pop")

exec_Exit(self, i) == Ok([self EXCEPT !.running = FALSE])

exec_Jmp(self, i) ==
    IF ~contains_key(self.program.labels, i.label)
    THEN ErrAt(self, "Unknown label: " \o i.label)
    ELSE Ok([self EXCEPT !.ip = self.program.labels[i.label]])

exec_Jz(self, i) ==
    LET val == get_variable(self, i.var) IN
    IF ~val.ok THEN ErrAt(self, val.err)
    ELSE IF is_zero(val.val) THEN exec_Jmp(self, i) ELSE Ok(self)

exec_Jnz(self, i) ==
    LET val == get_variable(self, i.var) IN
    IF ~val.ok THEN ErrAt(self, val.err)
    ELSE IF ~is_zero(val.val) THEN exec_Jmp(self, i) ELSE Ok(self)

(* binary_op!, comparison_op! and unary_op! *)
binary_op(self, i, method(_, _)) ==
    LET l == resolve_operand(self, i.left) IN
    IF ~l.ok THEN ErrAt(self, l.err)
    ELSE LET rhs == resolve_operand(self, i.right) IN
         IF ~rhs.ok THEN ErrAt(self, rhs.err)
         ELSE LET value == method(l.val, rhs.val) IN
              IF ~value.ok THEN ErrAt(self, value.err)
              ELSE set_variable(self, i.dest, value.val)

comparison_op(self, i, method(_, _)) ==
    LET l == resolve_operand(self, i.left) IN
    IF ~l.ok THEN ErrAt(self, l.err)
    ELSE LET rhs == resolve_operand(self, i.right) IN
         IF ~rhs.ok THEN ErrAt(self, rhs.err)
         ELSE LET value == method(l.val, rhs.val) IN
              IF ~value.ok THEN ErrAt(self, value.err)
              ELSE set_variable(self, i.dest, Val("I32", IF value.val THEN 1 ELSE 0))

unary_op(self, i, method(_)) ==
    LET val == resolve_operand(self, i.source) IN
    IF ~val.ok THEN ErrAt(self, val.err)
    ELSE LET value == method(val.val) IN
         IF ~value.ok THEN ErrAt(self, value.err)
         ELSE set_variable(self, i.dest, value.val)

exec_Cast(self, i) ==
    LET val == get_variable(self, i.source) IN
    IF ~val.ok THEN ErrAt(self, val.err)
    ELSE LET value == cast(val.val, i.target_type) IN
         IF ~value.ok THEN ErrAt(self, value.err)
         ELSE set_variable(self, i.dest, value.val)

(* The Print arm: the variable has to resolve; the line it writes to the   *)
(* standard output is not modelled.                                        *)
exec_print(self, i) ==
    LET val == get_variable(self, i.var) IN
    IF ~val.ok THEN ErrAt(self, val.err) ELSE Ok(self)

execute_one(self, instruction) ==
    CASE instruction.op = "CreateLocal"  -> exec_CreateLocal(self, instruction)
      [] instruction.op = "CreateGlobal" -> exec_CreateGlobal(self, instruction)
      [] instruction.op = "DeleteLocal"  -> exec_DeleteLocal(self, instruction)
      [] instruction.op = "SetVar"       -> exec_SetVar(self, instruction)
      [] instruction.op = "CopyVar"      -> exec_CopyVar(self, instruction)
      [] instruction.op = "Alloc"        -> exec_Alloc(self, instruction)
      [] instruction.op = "Free"         -> exec_Free(self, instruction)
      [] instruction.op = "Load"         -> exec_Load(self, instruction)
      [] instruction.op = "Store"        -> exec_Store(self, instruction)
      [] instruction.op = "Label"        -> Ok(self)
      [] instruction.op = "FuncBegin"    -> exec_FuncBegin(self, instruction)
      [] instruction.op = "FuncEnd"      -> Ok(self)
      [] instruction.op = "Call"         -> exec_Call(self, instruction)
      [] instruction.op = "Return"       -> exec_Return(self, instruction)
      [] instruction.op = "PopArg"       -> exec_PopArg(self, instruction)
      [] instruction.op = "Exit"         -> exec_Exit(self, instruction)
      [] instruction.op = "Jmp"          -> exec_Jmp(self, instruction)
      [] instruction.op = "Jz"           -> exec_Jz(self, instruction)
      [] instruction.op = "Jnz"          -> exec_Jnz(self, instruction)
      [] instruction.op = "Add"          -> binary_op(self, instruction, add)
      [] instruction.op = "Sub"          -> binary_op(self, instruction, sub)
      [] instruction.op = "Mul"          -> binary_op(self, instruction, mul)
      [] instruction.op = "Div"          -> binary_op(self, instruction, div)
      [] instruction.op = "Mod"          -> binary_op(self, instruction, modulo)
      [] instruction.op = "Neg"          -> unary_op(self, instruction, neg)
      [] instruction.op = "Lt"           -> comparison_op(self, instruction, lt)
      [] instruction.op = "Le"           -> comparison_op(self, instruction, le)
      [] instruction.op = "Gt"           -> comparison_op(self, instruction, gt)
      [] instruction.op = "Ge"           -> comparison_op(self, instruction, ge)
      [] instruction.op = "Shl"          -> binary_op(self, instruction, shift_left)
      [] instruction.op = "Shr"          -> binary_op(self, instruction, shift_right)
      [] instruction.op = "Cast"         -> exec_Cast(self, instruction)
      [] instruction.op = "Print"        -> exec_print(self, instruction)

(* execute_instruction without the profiler and debugger hooks, which are  *)
(* off unless the host enables them.                                       *)
execute_instruction(self, instruction) ==
    execute_one([self EXCEPT !.ip = @ + 1], instruction)

-----------------------------------------------------------------------------
(* VM construction *)

HeapBase == 4096

(* initialize_strings without the terminator byte. *)
RECURSIVE initialize_strings_unterminated(_, _)
initialize_strings_unterminated(self, strings) ==
    IF strings = <<>> THEN self
    ELSE LET string_literal == Head(strings)
             string_bytes == string_literal.content
             addr == self.next_heap_addr
         IN  initialize_strings_unterminated(
                [self EXCEPT
                   !.next_heap_addr = @ + Len(string_bytes),
                   !.heap = insert(@, addr, string_bytes),
                   !.globals = insert(@, string_literal.global_name, Val("Ptr", addr))],
                Tail(strings))

RECURSIVE initialize_strings(_, _)
initialize_strings(self, strings) ==
    IF strings = <<>> THEN self
    ELSE LET string_literal == Head(strings)
             string_bytes == string_literal.content \o <<0>>
             addr == self.next_heap_addr
         IN  initialize_strings(
                [self EXCEPT
                   !.next_heap_addr = @ + Len(string_bytes),
                   !.heap = insert(@, addr, string_bytes),
                   !.globals = insert(@, string_literal.global_name, Val("Ptr", addr))],
                Tail(strings))

RECURSIVE initialize_globals(_, _)
initialize_globals(self, decls) ==
    IF decls = <<>> THEN self
    ELSE initialize_globals(
            [self EXCEPT !.globals = insert(@, Head(decls).name, Val("I32", 0))],
            Tail(decls))

(* The struct literal of VM::new. *)
VM_literal(prog) ==
    [program |-> prog, ip |-> 0, globals |-> EmptyMap, call_stack |-> <<>>,
     current_frame |-> CallFrame("main", 0, EmptyMap, None, <<>>),
     heap |-> EmptyMap, next_heap_addr |-> HeapBase, running |-> TRUE]

VM_new(prog) ==
    initialize_strings(initialize_globals(VM_literal(prog), prog.globals), prog.strings)

-----------------------------------------------------------------------------
(* opcode.rs: the OpCode variants the model executes *)

Label(name) == [op |-> "Label", name |-> name]

FuncBegin(name, return_type) == [op |-> "FuncBegin", name |-> name, return_type |-> return_type]

FuncEnd == [op |-> "FuncEnd"]

CreateLocal(dtype, name) == [op |-> "CreateLocal", dtype |-> dtype, name |-> name]

CreateGlobal(dtype, name) == [op |-> "CreateGlobal", dtype |-> dtype, name |-> name]

DeleteLocal(name) == [op |-> "DeleteLocal", name |-> name]

SetVar(dest, value) == [op |-> "SetVar", dest |-> dest, value |-> value]

CopyVar(dest, source) == [op |-> "CopyVar", dest |-> dest, source |-> source]

Alloc(dest, size) == [op |-> "Alloc", dest |-> dest, size |-> size]

Free(ptr) == [op |-> "Free", ptr |-> ptr]

Load(dest, ptr, dtype) == [op |-> "Load", dest |-> dest, ptr |-> ptr, dtype |-> dtype]

Store(ptr, source, dtype) == [op |-> "Store", ptr |-> ptr, source |-> source, dtype |-> dtype]

Call(res, func, args) == [op |-> "Call", result |-> res, func |-> func, args |-> args]

Return(value) == [op |-> "Return", value |-> value]

PopArg(dest) == [op |-> "PopArg", dest |-> dest]

Exit(code) == [op |-> "Exit", code |-> code]

(* The opcodes with a destination and two operands: Add .. Mod, Lt .. Ge,  *)
(* Shl, Shr *)
Binary(op, dest, left, right) == [op |-> op, dest |-> dest, left |-> left, right |-> right]

Neg(dest, source) == [op |-> "Neg", dest |-> dest, source |-> source]

Cast(dest, source, target_type) ==
    [op |-> "Cast", dest |-> dest, source |-> source, target_type |-> target_type]

Jmp(label) == [op |-> "Jmp", label |-> label]

Jz(var, label) == [op |-> "Jz", var |-> var, label |-> label]

Jnz(var, label) == [op |-> "Jnz", var |-> var, label |-> label]

I32(v) == Immediate(Val("I32", v))

(* A slot of program.instructions whose instruction is an input of the run: *)
(* it is drawn from the named set when the slot is first fetched and is    *)
(* fixed from then on, which reaches the same runs as drawing every slot   *)
(* before the VM is constructed.                                           *)
Unbound(choices) == [op |-> "Unbound", choices |-> choices]

-----------------------------------------------------------------------------
(* program.rs / assembler.rs: the image *)

(* Program::emit binds each Label's name to its index. *)
LabelTable(instructions) ==
    LET names == {instructions[i].name : i \in {j \in 1..Len(instructions) :
                                                  instructions[j].op = "Label"}}
    IN  [n \in names |->
            (CHOOSE i \in 1..Len(instructions) :
                /\ instructions[i] = Label(n)
                /\ \A j \in (i + 1)..Len(instructions) : instructions[j] # Label(n)) - 1]

(* func_begin / func_end: start_ip is the index of the FuncBegin, end_ip   *)
(* the index of the next FuncEnd.                                          *)
FunctionTable(instructions) ==
    LET begins == {i \in 1..Len(instructions) : instructions[i].op = "FuncBegin"}
        ends(i) == {j \in (i + 1)..Len(instructions) : instructions[j].op = "FuncEnd"}
        closed == {i \in begins : ends(i) # {}}
        names == {instructions[i].name : i \in closed}
    IN  [n \in names |->
            LET i == CHOOSE b \in closed :
                        /\ instructions[b].name = n
                        /\ \A c \in closed : instructions[c].name = n => c <= b
                j == CHOOSE e \in ends(i) : \A f \in ends(i) : e <= f
            IN  [name |-> n, return_type |-> "I32", start_ip |-> i - 1, end_ip |-> j - 1]]

Image(instructions, decls, strings) ==
    [instructions |-> instructions, globals |-> decls,
     functions |-> FunctionTable(instructions), labels |-> LabelTable(instructions),
     strings |-> strings]

Global(name, dtype) == [name |-> name, dtype |-> dtype]

StringLiteral(content, global_name) == [content |-> content, global_name |-> global_name]

Function(name, body) == <<Label(name), FuncBegin(name, "I32")>> \o body \o <<FuncEnd>>

-----------------------------------------------------------------------------
(* The programs of the heap runs: main's body is HeapSlots instructions    *)
(* over three globals p, q (pointers) and g (a value), with a as an        *)
(* address the program computes.                                           *)

HeapSlots == 4

MaxOffset == 4

AllocSizes == {0, 4}

HeapChoices ==
    {Alloc(d, I32(n)) : d \in {"p", "q"}, n \in AllocSizes}
    \cup {SetVar("a", I32(HeapBase + k)) : k \in 0..MaxOffset}
    \cup {Free(v) : v \in {"p", "q", "a"}}
    \cup {Store(v, "g", "I32") : v \in {"p", "a"}}
    \cup {Store("a", "b", "U8")}
    \cup {Load("g", "p", "I32")}

-----------------------------------------------------------------------------
(* The programs of the call runs: main (a local x = 1, then CallSlots      *)
(* instructions) calls f, whose body is CalleeSlots instructions and a     *)
(* Return; f may call k.  g and r are globals, u, z and h are declared     *)
(* nowhere.                                                                *)

CallSlots == 2

CalleeSlots == 2

CallerChoices ==
    {SetVar("g", I32(2)), CreateLocal("I32", "r"),
     Call("r", "f", <<Variable("x"), I32(7)>>),
     Call("r", "f", <<I32(7), Variable("g")>>),
     Call(None, "f", <<Variable("x")>>),
     Call("z", "f", <<>>),
     Call("r", "h", <<>>),
     Call("r", "f", <<Variable("u")>>),
     Return(NoOperand), Return(Variable("x")), Return(Variable("u")),
     PopArg("x")}

CalleeChoices ==
    {PopArg("a"), PopArg("b"), SetVar("g", I32(5)), CreateLocal("I32", "r"),
     Call("a", "k", <<Variable("a")>>)}

ReturnChoices ==
    {Return(NoOperand), Return(Variable("a")), Return(Variable("b")),
     Return(I32(9)), Return(Variable("u")), Return(Variable("x"))}

CallProgram ==
    Image(Function("main", <<CreateLocal("I32", "x"), SetVar("x", I32(1))>>
                           \o [j \in 1..CallSlots |-> Unbound("caller")]
                           \o <<Return(NoOperand)>>)
          \o Function("f", [j \in 1..CalleeSlots |-> Unbound("callee")]
                           \o <<Unbound("return")>>)
          \o Function("k", <<PopArg("b"), Return(I32(8))>>),
          <<Global("g", "I32"), Global("r", "I32")>>,
          <<>>)

-----------------------------------------------------------------------------
(* The programs of the variable runs: main's body is VarSlots instructions *)
(* that create, delete, write and read the names g (also a global), x (a   *)
(* global only once CreateGlobal has run) and u (declared nowhere), or call *)
(* f, which reads or writes one of these names in its own frame.           *)

VarSlots == 3

VarChoices ==
    {CreateLocal("I32", "g"), CreateLocal("I32", "x"), DeleteLocal("g"),
     CreateGlobal("I32", "x"),
     SetVar("g", I32(1)), SetVar("x", I32(2)), SetVar("u", I32(3)),
     CopyVar("g", "x"), CopyVar("x", "g"), CopyVar("r", "g"), CopyVar("r", "u"),
     Call(None, "f", <<>>)}

ReaderChoices ==
    {CopyVar("r", "x"), CopyVar("r", "g"), SetVar("x", I32(4)), SetVar("g", I32(5))}

VarProgram ==
    Image(Function("main", [j \in 1..VarSlots |-> Unbound("var")]
                           \o <<Return(NoOperand)>>)
          \o Function("f", <<Unbound("reader"), Return(NoOperand)>>),
          <<Global("g", "I32"), Global("r", "I32")>>,
          <<>>)

-----------------------------------------------------------------------------
(* The programs of the jump runs: main's body is JumpSlots instructions    *)
(* and no Return, so that the loop runs on from main's FuncEnd into f,     *)
(* whose body holds the label inner, and then into k.  g is a global that  *)
(* starts at zero; no label is called nowhere.                             *)

JumpSlots == 2

JumpChoices ==
    {SetVar("g", I32(1)), Jmp("inner"), Jmp("f"), Jmp("nowhere"),
     Jz("g", "inner"), Jnz("g", "inner"), Jz("u", "inner"),
     Call(None, "f", <<>>), Return(NoOperand)}

BodyChoices ==
    {SetVar("g", I32(2)), Return(NoOperand), Jnz("g", "k"), Jmp("main")}

JumpProgram ==
    Image(Function("main", [j \in 1..JumpSlots |-> Unbound("jump")])
          \o Function("f", <<Label("inner"), Unbound("body")>>)
          \o Function("k", <<SetVar("g", I32(0))>>),
          <<Global("g", "I32")>>,
          <<>>)

(* examples.rs: factorial_program, with the argument main passes drawn     *)
(* from 0..MaxArgument. The functions are emitted without a Label: only    *)
(* base_case is in the label table.                                        *)
MaxArgument == 5

ArgumentChoices == {SetVar("n", I32(k)) : k \in 0..MaxArgument}

PrintVar(var) == [op |-> "Print", var |-> var]

factorial_program ==
    Image(<<FuncBegin("main", "I32"),
            CreateLocal("I32", "n"),
            Unbound("argument"),
            Call("result", "factorial", <<Variable("n")>>),
            PrintVar("result"),
            Return(I32(0)),
            FuncEnd,
            FuncBegin("factorial", "I32"),
            PopArg("n"),
            CreateLocal("I32", "temp"),
            SetVar("temp", I32(1)),
            Binary("Le", "temp", Variable("n"), I32(1)),
            Jnz("temp", "base_case"),
            CreateLocal("I32", "n_minus_1"),
            Binary("Sub", "n_minus_1", Variable("n"), I32(1)),
            Call("temp", "factorial", <<Variable("n_minus_1")>>),
            Binary("Mul", "temp", Variable("n"), Variable("temp")),
            Return(Variable("temp")),
            Label("base_case"),
            Return(I32(1)),
            FuncEnd>>,
          <<Global("result", "I32")>>,
          <<>>)

(* The programs of the store runs: main allocates a block of 16 bytes,     *)
(* points p at or behind one of its bytes, writes one of Values to d,      *)
(* stores d through p as one DataType and loads g through p as one         *)
(* DataType.                                                               *)
AddressChoices ==
    {SetVar("p", Immediate(Val("Ptr", HeapBase + k))) : k \in {0, 4, 12, 16}}

StoreChoices == {Store("p", "d", dtype) : dtype \in DataType}

LoadChoices == {Load("g", "p", dtype) : dtype \in DataType}

StoreProgram ==
    Image(Function("main", <<Alloc("p", I32(16)), Unbound("address"),
                             Unbound("operand"), Unbound("store"), Unbound("load"),
                             Return(NoOperand)>>),
          <<Global("p", "Ptr"), Global("d", "I32"), Global("g", "I32")>>,
          <<>>)

(* The programs of the debug runs: main executes one of JumpChoices, then  *)
(* writes 2 to g and returns; the host may have set debug mode, a callback *)
(* and a breakpoint before run().                                          *)
DebugProgram ==
    Image(Function("main", <<Unbound("jump"), SetVar("g", I32(2)), Return(NoOperand)>>)
          \o Function("f", <<Label("inner"), Return(NoOperand)>>),
          <<Global("g", "I32")>>,
          <<>>)

-----------------------------------------------------------------------------
(* The programs of the arithmetic runs: main writes one of Values to the   *)
(* global d and then executes one operation whose destination is d and     *)
(* whose first operand is d, the second an immediate of Values.            *)

Values ==
    {Val("I8", v) : v \in {-128, 3}}
    \cup {Val("I16", v) : v \in {-1, 300}}
    \cup {Val("I32", v) : v \in {i32_MIN, -7, -1, 0, 1, 2, 33, i32_MAX}}
    \cup {Val("I64", v) : v \in {-5, -1, 0, 9, 64}}
    \cup {Val("U8", v) : v \in {0, 200}}
    \cup {Val("U16", v) : v \in {65535}}
    \cup {Val("U32", v) : v \in {0, 1, 40}}
    \cup {Val("U64", v) : v \in {1}}
    \cup {Val("F32", v) : v \in {-2, 0, 3}}
    \cup {Val("F64", v) : v \in {-2, 5}}
    \cup {Val("Ptr", v) : v \in {0, HeapBase}}

BinaryOps == {"Add", "Sub", "Mul", "Div", "Mod", "Lt", "Le", "Gt", "Ge", "Shl", "Shr"}

OperandChoices == {SetVar("d", Immediate(v)) : v \in Values}

ArithChoices ==
    {Binary(op, "d", Variable("d"), Immediate(v)) : op \in BinaryOps, v \in Values}
    \cup {Neg("d", Variable("d"))}
    \cup {Cast("d", "d", t) : t \in DataType}

ArithProgram ==
    Image(Function("main", <<Unbound("operand"), Unbound("arith"), Return(NoOperand)>>),
          <<Global("d", "I32")>>,
          <<>>)

Choices(name) ==
    CASE name = "heap"   -> HeapChoices
      [] name = "operand" -> OperandChoices
      [] name = "arith"  -> ArithChoices
      [] name = "jump"   -> JumpChoices
      [] name = "address" -> AddressChoices
      [] name = "store"  -> StoreChoices
      [] name = "load"   -> LoadChoices
      [] name = "argument" -> ArgumentChoices
      [] name = "body"   -> BodyChoices
      [] name = "caller" -> CallerChoices
      [] name = "callee" -> CalleeChoices
      [] name = "return" -> ReturnChoices
      [] name = "var"    -> VarChoices
      [] name = "reader" -> ReaderChoices

-----------------------------------------------------------------------------
(* The images of the construction runs: a data section of up to MaxDecls   *)
(* declarations of the names g and s, each of a type or a string literal   *)
(* of up to MaxLen bytes, assembled with a main that only returns.         *)

MaxDecls == 2

MaxLen == 1

NoValue == [k |-> "None"]

String(content) == [k |-> "String", content |-> content]

DataDeclaration(name, dtype, value) == [name |-> name, dtype |-> dtype, value |-> value]

StringContents == UNION {[1..n -> {97, 98}] : n \in 0..MaxLen}

(* parse_data_section: name: type, or name: str "literal" with type Ptr *)
Declarations ==
    {DataDeclaration(name, dtype, NoValue) : name \in {"g", "s"}, dtype \in DataType}
    \cup {DataDeclaration(name, "Ptr", String(content)) :
             name \in {"g", "s"}, content \in StringContents}

DataSections == UNION {[1..n -> Declarations] : n \in 0..MaxDecls}

(* The string pool after the data section: add_string appends one pair    *)
(* per string declaration.                                                 *)
RECURSIVE string_pool(_)
string_pool(data_section) ==
    IF data_section = <<>> THEN <<>>
    ELSE LET decl == Head(data_section) IN
         (IF decl.value.k = "String"
          THEN <<StringLiteral(decl.value.content, decl.name)>> ELSE <<>>)
         \o string_pool(Tail(data_section))

(* assemble_program: the data section, then the text section *)
assemble_program(data_section, text_section) ==
    Image(text_section,
          [j \in 1..Len(data_section) |->
              Global(data_section[j].name, data_section[j].dtype)],
          string_pool(data_section))

HeapProgram ==
    Image(Function("main", <<CreateGlobal("U8", "b")>>
                           \o [j \in 1..HeapSlots |-> Unbound("heap")]
                           \o <<Return(NoOperand)>>),
          <<Global("p", "Ptr"), Global("q", "Ptr"), Global("a", "Ptr"), Global("g", "I32")>>,
          <<>>)

-----------------------------------------------------------------------------
(* The host: VM::new(program), then run() *)

NoInstruction == [op |-> "None"]

(* No assembler is at work. *)
ToolsIdle ==
    /\ ast = [defines |-> <<>>, data_section |-> <<>>, text_section |-> <<>>]
    /\ assembler = [program |-> 0]
    /\ tool = [pc |-> "idle"]
    /\ encoded = <<>>
    /\ decoded = [input |-> [kind |-> "none", n |-> 0]]
    /\ listing = [pc |-> "idle"]
    /\ loader = [pc |-> "idle"]
    /\ lexer = [pc |-> "idle"]

(* The host holds the image prog and is about to call VM::new; checks    *)
(* tells whether the build panics on integer overflow.                     *)
Constructing(prog, checks) ==
    /\ ToolsIdle
    /\ program = prog
    /\ ip = VM_literal(prog).ip
    /\ globals = VM_literal(prog).globals
    /\ call_stack = VM_literal(prog).call_stack
    /\ current_frame = VM_literal(prog).current_frame
    /\ heap = VM_literal(prog).heap
    /\ next_heap_addr = VM_literal(prog).next_heap_addr
    /\ running = VM_literal(prog).running
    /\ pc = "new"
    /\ last = [current_ip |-> 0, instruction |-> NoInstruction, result |-> "",
               command |-> "none"]
    /\ result = "none"
    /\ freed = {}
    /\ calls = <<[call_ip |-> -1, args |-> <<>>, dest |-> None, pops |-> 0]>>
    /\ debug_mode = FALSE
    /\ breakpoints = {}
    /\ debug_callback = None
    /\ overflow_checks = checks

(* The images of these runs hold no arithmetic, so the build is fixed. *)
NotConstructed(prog) == Constructing(prog, TRUE)

SetSelf(self) ==
    /\ program' = self.program
    /\ ip' = self.ip
    /\ globals' = self.globals
    /\ call_stack' = self.call_stack
    /\ current_frame' = self.current_frame
    /\ heap' = self.heap
    /\ next_heap_addr' = self.next_heap_addr
    /\ running' = self.running

New ==
    /\ pc = "new"
    /\ SetSelf(VM_new(program))
    /\ pc' = "ready"
    /\ UNCHANGED <<last, result, freed, calls, debugvars>>
    /\ UNCHANGED toolvars

(* run() up to its loop *)
Run ==
    /\ pc = "ready"
    /\ IF contains_key(program.functions, "main")
       THEN /\ ip' = program.functions["main"].start_ip + 1
            /\ pc' = "loop"
            /\ UNCHANGED result
       ELSE /\ result' = "No main function found"
            /\ pc' = "done"
            /\ UNCHANGED ip
    /\ UNCHANGED <<program, globals, call_stack, current_frame, heap,
                   next_heap_addr, running, last, freed, calls, debugvars>>
    /\ UNCHANGED toolvars

(* The history of calls: one entry per active frame (the saved frames and *)
(* the current one), holding the index of the Call that created the frame, *)
(* the values its argument operands had in the caller when it was         *)
(* executed, its result operand, and how many PopArg have succeeded in    *)
(* the frame.                                                              *)
Record(h, self, instruction, r) ==
    CASE Len(r.val.call_stack) > Len(self.call_stack) ->
            Append(h, [call_ip |-> self.ip,
                       args |-> [j \in 1..Len(instruction.args) |->
                                   resolve_operand(self, instruction.args[j]).val],
                       dest |-> instruction.result,
                       pops |-> 0])
      [] Len(r.val.call_stack) < Len(self.call_stack) ->
            SubSeq(h, 1, Len(h) - 1)
      [] OTHER ->
            IF instruction.op = "PopArg" /\ r.ok
            THEN [h EXCEPT ![Len(h)].pops = @ + 1]
            ELSE h

(* The instructions a slot can hold. *)
Fetch(instruction) ==
    IF instruction.op = "Unbound" THEN Choices(instruction.choices) ELSE {instruction}

(* What the host's debug callback does when execute_instruction calls it: *)
(* it returns Ok(()), calls vm.stop() and returns Ok(()) (the debugger's   *)
(* Quit command), or returns an error.  "none" stands for the callback not *)
(* being called.                                                           *)
DebugCommands == {"continue", "quit", "fail"}

Commands ==
    IF (debug_mode \/ ip \in breakpoints) /\ debug_callback # None
    THEN DebugCommands ELSE {"none"}

(* stop that does not clear running. *)
stop_ignored(self) == self

stop(self) == [self EXCEPT !.running = FALSE]

callback(self, command) ==
    CASE command = "quit" -> Ok(stop(self))
      [] command = "fail" -> ErrAt(self, "debug callback failed")
      [] OTHER -> Ok(self)

(* The messages of the panics that abort the process. *)
Panics ==
    {"attempt to divide with overflow",
     "attempt to calculate the remainder with overflow",
     "attempt to add with overflow", "attempt to subtract with overflow",
     "attempt to multiply with overflow", "attempt to negate with overflow"}

(* One iteration of run()'s loop: execute_instruction()?, the debug hook   *)
(* first.  A panic ends the process before run() returns.                  *)
ExecuteInstruction ==
    /\ pc = "loop"
    /\ running /\ ip < Len(program.instructions)
    /\ \E instruction \in Fetch(program.instructions[ip + 1]), command \in Commands :
          LET self == [Self EXCEPT !.program.instructions[ip + 1] = instruction]
              hooked == callback(self, command)
              r == IF hooked.ok THEN execute_instruction(hooked.val, instruction)
                   ELSE hooked
          IN  /\ SetSelf(r.val)
              /\ last' = [current_ip |-> ip, instruction |-> instruction, result |-> r.err,
                          command |-> command]
              /\ freed' = freed \cup {[addr |-> b, size |-> Len(heap[b])] :
                                        b \in (DOMAIN heap) \ (DOMAIN r.val.heap)}
              /\ calls' = Record(calls, self, instruction, r)
              /\ IF r.ok THEN UNCHANGED <<pc, result>>
                 ELSE IF r.err \in Panics THEN pc' = "aborted" /\ UNCHANGED result
                 ELSE pc' = "done" /\ result' = r.err
    /\ UNCHANGED <<toolvars, debugvars>>

(* run() leaves its loop and returns Ok(0) *)
RunReturn ==
    /\ pc = "loop"
    /\ ~(running /\ ip < Len(program.instructions))
    /\ pc' = "done"
    /\ result' = "Ok(0)"
    /\ UNCHANGED <<program, ip, globals, call_stack, current_frame, heap,
                   next_heap_addr, running, last, freed, calls, debugvars>>
    /\ UNCHANGED toolvars

Next == New \/ Run \/ ExecuteInstruction \/ RunReturn

(* The host's calls of the debug methods between VM::new and run() *)
MaxBreakpoints == 1

SetDebugMode ==
    /\ pc = "ready"
    /\ \E enabled \in BOOLEAN :
          /\ enabled # debug_mode
          /\ debug_mode' = enabled
    /\ UNCHANGED <<vmstate, toolvars, breakpoints, debug_callback, overflow_checks>>

SetDebugCallback ==
    /\ pc = "ready"
    /\ debug_callback = None
    /\ debug_callback' = "callback"
    /\ UNCHANGED <<vmstate, toolvars, debug_mode, breakpoints, overflow_checks>>

AddBreakpoint ==
    /\ pc = "ready"
    /\ Cardinality(breakpoints) < MaxBreakpoints
    /\ \E b \in 0..(Len(program.instructions) - 1) :
          /\ b \notin breakpoints
          /\ breakpoints' = breakpoints \cup {b}
    /\ UNCHANGED <<vmstate, toolvars, debug_mode, debug_callback, overflow_checks>>

(* Debugger::execute_command(BreakFunction(func_name)) between VM::new and *)
(* run(): a breakpoint at the function's start_ip, or an error.            *)
BreakFunction ==
    /\ pc = "ready"
    /\ \E func_name \in {"main", "f", "h"} :
          IF contains_key(program.functions, func_name)
          THEN breakpoints' = breakpoints \cup {program.functions[func_name].start_ip}
          ELSE UNCHANGED breakpoints
    /\ UNCHANGED <<vmstate, toolvars, debug_mode, debug_callback, overflow_checks>>

NextBreak ==
    \/ New \/ Run \/ ExecuteInstruction \/ RunReturn
    \/ SetDebugCallback \/ BreakFunction

NextDebug ==
    \/ New \/ Run \/ ExecuteInstruction \/ RunReturn
    \/ SetDebugMode \/ SetDebugCallback \/ AddBreakpoint

InitVar == NotConstructed(VarProgram)

SpecVar == InitVar /\ [][Next]_vars

InitNew ==
    \E data_section \in DataSections :
       NotConstructed(assemble_program(data_section,
                                       Function("main", <<Return(NoOperand)>>)))

SpecNew == InitNew /\ [][Next]_vars

InitCall == NotConstructed(CallProgram)

SpecCall == InitCall /\ [][Next]_vars

(* run() is sequential code: once called it keeps taking its next step. *)
SpecCallFair == SpecCall /\ WF_vars(Next)

InitHeap == NotConstructed(HeapProgram)

InitJump == NotConstructed(JumpProgram)

(* The arithmetic runs, in the debug and in the release build. *)
InitArith == \E checks \in BOOLEAN : Constructing(ArithProgram, checks)

SpecArith == InitArith /\ [][Next]_vars

SpecJump == InitJump /\ [][Next]_vars

SpecHeap == InitHeap /\ [][Next]_vars

(* The debug runs. run() is sequential code: once called it keeps taking   *)
(* its next step.                                                          *)
(* The factorial runs, in the debug and in the release build. run() is    *)
(* sequential code: once called it keeps taking its next step.             *)
InitFactorial == \E checks \in BOOLEAN : Constructing(factorial_program, checks)

SpecFactorial == InitFactorial /\ [][Next]_vars /\ WF_vars(Next)

InitStore == NotConstructed(StoreProgram)

SpecStore == InitStore /\ [][Next]_vars

InitDebug == NotConstructed(DebugProgram)

(* The debug runs under a host that installs a callback and sets function *)
(* breakpoints.                                                            *)
SpecBreak == InitDebug /\ [][NextBreak]_vars

SpecDebug ==
    InitDebug /\ [][NextDebug]_vars /\ WF_vars(Run \/ ExecuteInstruction \/ RunReturn)

-----------------------------------------------------------------------------
(* What a step of the dispatch loop did *)

(* The states in which the next step executes an instruction; in such a    *)
(* step last' holds the instruction and what it returned.                  *)
ExecStep == pc = "loop" /\ running /\ ip < Len(program.instructions)

Succeeded(l) == l.result = ""

Failed(l) == l.result # ""

(* The address a pointer variable denotes for Free, Load and Store. *)
PointerOf(self, name) ==
    IF get_variable(self, name).ok /\ as_usize(get_variable(self, name).val).ok
    THEN as_usize(get_variable(self, name).val).val
    ELSE -1

(* A Store whose operands resolve and whose source has the stored type, so *)
(* that it reaches the heap.                                               *)
StoreReachesHeap(self, i) ==
    /\ i.op = "Store"
    /\ PointerOf(self, i.ptr) >= 0
    /\ get_variable(self, i.source).ok
    /\ get_variable(self, i.source).val.t = i.dtype

(* Some live block has at least w bytes from addr on. *)
RoomAt(self, addr, w) ==
    \E b \in DOMAIN self.heap : addr >= b /\ addr - b + w <= Len(self.heap[b])

(* An optional operand that is absent or resolves in self. *)
Resolves(self, operand) ==
    operand = NoOperand \/ resolve_operand(self, operand).ok

-----------------------------------------------------------------------------
-----------------------------------------------------------------------------
(* What C2 says of a Return executed with a non-empty call stack: one      *)
(* frame is popped and becomes the current frame, ip is the index after    *)
(* the Call that created the returning frame, and a value returned to a    *)
(* destination is written where the destination resolves in the restored   *)
(* frame: its local if it has one, else the global; with neither, the      *)
(* Return fails once the frame is restored.                                *)
ReturnsToCaller ==
    LET frame == call_stack[Len(call_stack)]
        top == calls[Len(calls)]
        value == last'.instruction.value
        written == value # NoOperand /\ top.dest # None
        ret_val == resolve_operand(Self, value).val
    IN  /\ call_stack' = SubSeq(call_stack, 1, Len(call_stack) - 1)
        /\ ip' = top.call_ip + 1
        /\ current_frame'.function_name = frame.function_name
        /\ current_frame'.args = frame.args
        /\ IF written /\ contains_key(frame.locals, top.dest)
           THEN /\ current_frame'.locals = insert(frame.locals, top.dest, ret_val)
                /\ globals' = globals
                /\ Succeeded(last')
           ELSE IF written /\ contains_key(globals, top.dest)
           THEN /\ current_frame'.locals = frame.locals
                /\ globals' = insert(globals, top.dest, ret_val)
                /\ Succeeded(last')
           ELSE /\ current_frame'.locals = frame.locals
                /\ globals' = globals
                /\ Succeeded(last') <=> ~written

(* C2 (as claimed): every Return executed with a non-empty call stack      *)
(* pops one frame, makes it current, sets ip to the index after the Call   *)
(* and writes a returned value into the destination as resolved in the     *)
(* restored frame.                                                         *)
C2_Claimed ==
    [][ExecStep /\ last'.instruction.op = "Return" /\ call_stack # <<>> =>
         ReturnsToCaller]_vars

(* C2 (amended): every Return executed with a non-empty call stack whose   *)
(* value operand, if any, resolves in the returning frame pops one frame,  *)
(* makes it current, sets ip to the index after the Call and writes a      *)
(* returned value into the destination as resolved in the restored frame.  *)
C2_Return ==
    [][ExecStep /\ last'.instruction.op = "Return" /\ call_stack # <<>>
          /\ Resolves(Self, last'.instruction.value) =>
         ReturnsToCaller]_vars

(* C2 witness: a Return has just written its value into the local r of     *)
(* main, which shadows the global r.                                       *)
C2_Witness ==
    /\ last.instruction.op = "Return"
    /\ Succeeded(last)
    /\ last.instruction.value # NoOperand
    /\ running
    /\ call_stack = <<>>
    /\ contains_key(current_frame.locals, "r")
    /\ current_frame.locals["r"] = Val("I32", 9)
    /\ globals["r"] = Val("I32", 0)
    /\ program.instructions[ip].op = "Call"

-----------------------------------------------------------------------------
(* The dispatch loop has been left by a Return executed with an empty call *)
(* stack.                                                                  *)
MainReturned ==
    pc = "loop" /\ ~running /\ last.instruction.op = "Return" /\ Succeeded(last)

(* After the Return of main the only step is run() returning Ok(0), and    *)
(* it is taken.                                                            *)
RunReturnsOk ==
    /\ [][MainReturned =>
            /\ pc' = "done" /\ result' = "Ok(0)"
            /\ UNCHANGED <<program, ip, globals, call_stack, current_frame,
                           heap, next_heap_addr, running, last>>]_vars
    /\ [][pc # "done"]_vars
    /\ MainReturned ~> (pc = "done" /\ result = "Ok(0)")

(* C3 (as claimed): every Return executed with an empty call stack makes   *)
(* running false, after which no instruction is executed and run()         *)
(* returns Ok(0).                                                          *)
C3_Claimed ==
    /\ [][ExecStep /\ last'.instruction.op = "Return" /\ call_stack = <<>> =>
            ~running' /\ MainReturned']_vars
    /\ RunReturnsOk

(* C3 (amended): every Return executed with an empty call stack whose      *)
(* value operand, if any, resolves makes running false, after which no     *)
(* instruction is executed and run() returns Ok(0).                        *)
C3_TerminationOfMain ==
    /\ [][ExecStep /\ last'.instruction.op = "Return" /\ call_stack = <<>>
             /\ Resolves(Self, last'.instruction.value) =>
            ~running' /\ MainReturned']_vars
    /\ RunReturnsOk

(* C3 witness: run() has returned Ok(0) after a Return of a value in main, *)
(* executed before the last instruction of the image.                      *)
C3_Witness ==
    /\ pc = "done"
    /\ result = "Ok(0)"
    /\ ~running
    /\ call_stack = <<>>
    /\ last.instruction.op = "Return"
    /\ last.instruction.value # NoOperand
    /\ ip < Len(program.instructions)

-----------------------------------------------------------------------------
(* C7: a write of a value to name x (SetVar of an immediate, or CopyVar of *)
(* a readable source) replaces the current frame's local x and leaves the  *)
(* globals alone when the frame has a local x; otherwise replaces the      *)
(* global x when there is one; otherwise fails and leaves locals and       *)
(* globals as they were.  The frames saved on the call stack are untouched *)
(* in every case.                                                          *)
Writes(self, i) ==
    \/ i.op = "SetVar" /\ i.value.k = "Immediate"
    \/ i.op = "CopyVar" /\ get_variable(self, i.source).ok

Written(self, i) ==
    IF i.op = "SetVar" THEN i.value.val ELSE get_variable(self, i.source).val

C7_WriteResolution ==
    [][ExecStep /\ Writes(Self, last'.instruction) =>
         LET x == last'.instruction.dest
             v == Written(Self, last'.instruction)
             locals == current_frame.locals
         IN  /\ call_stack' = call_stack
             /\ IF x \in DOMAIN locals
                THEN /\ Succeeded(last')
                     /\ current_frame'.locals = [n \in DOMAIN locals |->
                                                   IF n = x THEN v ELSE locals[n]]
                     /\ globals' = globals
                ELSE IF x \in DOMAIN globals
                THEN /\ Succeeded(last')
                     /\ current_frame'.locals = locals
                     /\ globals' = [n \in DOMAIN globals |->
                                      IF n = x THEN v ELSE globals[n]]
                ELSE /\ Failed(last')
                     /\ current_frame'.locals = locals
                     /\ globals' = globals]_vars

(* C7 witness: a write to g has just changed the local g of main while a   *)
(* global g exists and keeps its initial value.                            *)
C7_Witness ==
    /\ last.instruction.op = "SetVar"
    /\ last.instruction.dest = "g"
    /\ Succeeded(last)
    /\ "g" \in DOMAIN current_frame.locals
    /\ current_frame.locals["g"] = Val("I32", 1)
    /\ globals["g"] = Val("I32", 0)

-----------------------------------------------------------------------------
(* C8: a read of name x (the source of a CopyVar) yields the current       *)
(* frame's local x when the frame has one, whatever the globals hold;      *)
(* otherwise the global x; otherwise the instruction fails with "Unknown   *)
(* variable"; the locals of the frames saved on the call stack play no     *)
(* part.  The value read is observed in the destination when the           *)
(* destination exists.                                                     *)
Yields(v) ==
    LET dest == last'.instruction.dest IN
    IF dest \in DOMAIN current_frame.locals
    THEN Succeeded(last') /\ current_frame'.locals[dest] = v
    ELSE IF dest \in DOMAIN globals
    THEN Succeeded(last') /\ globals'[dest] = v
    ELSE Failed(last')

C8_ReadResolution ==
    [][ExecStep /\ last'.instruction.op = "CopyVar" =>
         LET x == last'.instruction.source IN
         IF x \in DOMAIN current_frame.locals THEN Yields(current_frame.locals[x])
         ELSE IF x \in DOMAIN globals THEN Yields(globals[x])
         ELSE last'.result = "Unknown variable: " \o x]_vars

(* C8 witness: in the callee, a read of g has just yielded the global g    *)
(* while the saved frame of the caller holds a local g of another value.   *)
C8_Witness ==
    /\ last.instruction.op = "CopyVar"
    /\ last.instruction.source = "g"
    /\ Succeeded(last)
    /\ call_stack # <<>>
    /\ "g" \in DOMAIN call_stack[1].locals
    /\ "g" \notin DOMAIN current_frame.locals
    /\ call_stack[1].locals["g"] # globals["g"]
    /\ globals["r"] = globals["g"]

-----------------------------------------------------------------------------
(* C9 (as claimed): once the VM is constructed, every declared global that *)
(* no string literal names holds the default value of its declared type.   *)
C9_Claimed ==
    pc = "ready" =>
       \A j \in 1..Len(program.globals) :
          LET global == program.globals[j] IN
          (\A m \in 1..Len(program.strings) :
              program.strings[m].global_name # global.name)
          => /\ global.name \in DOMAIN globals
             /\ globals[global.name] = default_value(global.dtype)

-----------------------------------------------------------------------------
(* The address of the i-th string block: 0x1000 for the first, and the end *)
(* of the block before for the others.                                     *)
RECURSIVE StringAddr(_, _)
StringAddr(strings, i) ==
    IF i = 1 THEN HeapBase
    ELSE StringAddr(strings, i - 1) + Len(strings[i - 1].content) + 1

(* After construction the i-th string block holds the content and one     *)
(* zero byte, and next_heap_addr is the end of the last block.             *)
StringBlocks ==
    LET strings == program.strings IN
    /\ \A i \in 1..Len(strings) :
          /\ StringAddr(strings, i) \in DOMAIN heap
          /\ heap[StringAddr(strings, i)] = strings[i].content \o <<0>>
    /\ Cardinality(DOMAIN heap) = Len(strings)
    /\ next_heap_addr = StringAddr(strings, Len(strings) + 1)

(* C10 (as claimed): after construction, for each string literal in pool   *)
(* order the named global holds Ptr(a_i), the block at a_i holds the       *)
(* content and a zero byte, and next_heap_addr is the end of the last      *)
(* block.                                                                  *)
C10_Claimed ==
    pc = "ready" =>
       /\ StringBlocks
       /\ \A i \in 1..Len(program.strings) :
             globals[program.strings[i].global_name]
                = Val("Ptr", StringAddr(program.strings, i))

(* C10 (amended): after construction, for each string literal in pool      *)
(* order that no later literal names the same global, the named global     *)
(* holds Ptr(a_i); the block at a_i holds the content and a zero byte for  *)
(* every literal, and next_heap_addr is the end of the last block.         *)
C10_StringInitialisation ==
    pc = "ready" =>
       /\ StringBlocks
       /\ \A i \in 1..Len(program.strings) :
             (\A m \in (i + 1)..Len(program.strings) :
                 program.strings[m].global_name # program.strings[i].global_name)
             => globals[program.strings[i].global_name]
                   = Val("Ptr", StringAddr(program.strings, i))

(* C10 witness: a VM constructed from two string literals of different     *)
(* globals, the first not empty.                                           *)
C10_Witness ==
    /\ pc = "ready"
    /\ Len(program.strings) = 2
    /\ program.strings[1].global_name # program.strings[2].global_name
    /\ program.strings[1].content # <<>>
    /\ globals[program.strings[2].global_name]
          = Val("Ptr", HeapBase + Len(program.strings[1].content) + 1)
    /\ next_heap_addr > HeapBase + 2

-----------------------------------------------------------------------------
(* C4 (as claimed): a Store of width w at offset k of a live block of size *)
(* n >= w succeeds for k in [0, n - w) and fails for every k from          *)
(* n - w + 1 through n, whatever other blocks are live.                    *)
C4_Claimed ==
    [][ExecStep /\ StoreReachesHeap(Self, last'.instruction) =>
         \A a \in DOMAIN heap :
            LET n == Len(heap[a])
                w == byte_count(last'.instruction.dtype)
                k == PointerOf(Self, last'.instruction.ptr) - a
            IN  w <= n =>
                  /\ k \in 0..(n - w - 1) => Succeeded(last')
                  /\ k \in (n - w + 1)..n => Failed(last')]_vars

(* C4 (amended): a Store of width w at offset k of a live block of size    *)
(* n >= w succeeds for k in [0, n - w), fails for every k from n - w + 1   *)
(* through n - 1, and at k = n fails exactly when no live block has w      *)
(* bytes from that address on.                                             *)
C4_HeapBounds ==
    [][ExecStep /\ StoreReachesHeap(Self, last'.instruction) =>
         \A a \in DOMAIN heap :
            LET n == Len(heap[a])
                w == byte_count(last'.instruction.dtype)
                k == PointerOf(Self, last'.instruction.ptr) - a
            IN  w <= n =>
                  /\ k \in 0..(n - w - 1) => Succeeded(last')
                  /\ k \in (n - w + 1)..(n - 1) => Failed(last')
                  /\ k = n => (Failed(last') <=> ~RoomAt(Self, a + n, w))]_vars

(* C4 witness: with two blocks live, a Store just failed inside one of     *)
(* them, at an offset from n - w + 1 through n - 1.                        *)
C4_Witness ==
    /\ last.instruction.op = "Store"
    /\ Failed(last)
    /\ \E a \in DOMAIN heap :
          LET n == Len(heap[a])
              w == byte_count(last.instruction.dtype)
              k == PointerOf(Self, last.instruction.ptr) - a
          IN  w <= n /\ k \in (n - w + 1)..(n - 1)
    /\ Cardinality(DOMAIN heap) >= 2

-----------------------------------------------------------------------------
C6_Claimed ==
    [][ExecStep /\ last'.instruction.op = "Free"
        /\ PointerOf(Self, last'.instruction.ptr) >= 0
        => LET p == PointerOf(Self, last'.instruction.ptr)
           IN  IF p \in DOMAIN heap
               THEN Succeeded(last') /\ heap' = remove(heap, p)
               ELSE Failed(last') /\ heap' = heap]_vars

-----------------------------------------------------------------------------
(* The assembler (src/src/asm): from the parsed source to the image.  An   *)
(* AsmError is a record [kind, message].                                   *)

AsmVariable(name) == [k |-> "Variable", name |-> name]

AsmLabel(name) == [k |-> "Label", name |-> name]

AsmImmediate(imm) == [k |-> "Immediate", imm |-> imm]

Integer(v) == [k |-> "Integer", v |-> v]

(* A float is a multiple of 1/2, held as its number of halves. *)
Float(v) == [k |-> "Float", v |-> v]

Define(name, value) == [name |-> name, value |-> value]

StatementLabel(name) == [s |-> "Label", name |-> name]

StatementLocalDecl(name, dtype) == [s |-> "LocalDecl", name |-> name, dtype |-> dtype]

StatementInstruction(opcode, operands) ==
    [s |-> "Instruction", opcode |-> opcode, operands |-> operands]

AssemblyError(message) == [kind |-> "AssemblyError", message |-> message]

ParseError(message) == [kind |-> "ParseError", message |-> message]

LabelOperand(name) == [k |-> "Label", name |-> name]

(* The identifiers of the sources, one alphanumeric run each; a local      *)
(* label is a dot and an identifier; a qualified label is a function       *)
(* name, a colon and a local label.                                        *)
Identifiers == {"a", "f", "g", "x", "u", "N", "l"}

LocalLabels == {"." \o i : i \in Identifiers}

QualifiedLabels == {f \o ":" \o l : f \in Identifiers, l \in LocalLabels}

(* The statements of a text section, at most *)
MaxStatements == 3

(* The names qualify_label makes by qualifying a local label n times: the  *)
(* name of a function is the label before its func_begin, which may itself *)
(* be a qualified one.                                                     *)
RECURSIVE Qualified(_)
Qualified(n) ==
    IF n = 0 THEN Identifiers
    ELSE {q \o ":" \o l : q \in Qualified(n - 1), l \in LocalLabels}

(* The function name and the local label of a qualified name *)
RECURSIVE split(_, _)
split(name, n) ==
    IF n > MaxStatements THEN <<name, "">>
    ELSE IF \E q \in Qualified(n - 1), l \in LocalLabels : name = q \o ":" \o l
    THEN CHOOSE s \in Qualified(n - 1) \X LocalLabels : name = s[1] \o ":" \o s[2]
    ELSE split(name, n + 1)

(* A name as the sequence of its alphanumeric runs and punctuation         *)
(* characters.                                                             *)
RECURSIVE chars(_)
chars(name) ==
    IF name \in Identifiers THEN <<name>>
    ELSE IF name \in LocalLabels
    THEN <<".", CHOOSE i \in Identifiers : name = "." \o i>>
    ELSE LET q == split(name, 1)
         IN  IF q[2] = "" THEN <<name>>
             ELSE chars(q[1]) \o <<":">> \o chars(q[2])

starts_with(name, c) == chars(name)[1] = c

TypeKeywords ==
    [i8 |-> "I8", i16 |-> "I16", i32 |-> "I32", i64 |-> "I64",
     u8 |-> "U8", u16 |-> "U16", u32 |-> "U32", u64 |-> "U64",
     f32 |-> "F32", f64 |-> "F64", ptr |-> "Ptr", void |-> "Void"]

Program_new ==
    [instructions |-> <<>>, globals |-> <<>>, functions |-> EmptyMap,
     labels |-> EmptyMap, strings |-> <<>>]

Assembler_new ==
    [program |-> Program_new, label_positions |-> EmptyMap,
     function_starts |-> EmptyMap, current_function |-> None, defines |-> EmptyMap]

(* Program::emit, as the program after it *)
emit(prog, opcode) ==
    [prog EXCEPT
       !.labels = IF opcode.op = "Label"
                  THEN insert(@, opcode.name, Len(prog.instructions)) ELSE @,
       !.instructions = Append(@, opcode)]

add_function(prog, func) == [prog EXCEPT !.functions = insert(@, func.name, func)]

qualify_label(self, label) ==
    IF starts_with(label, ".")
    THEN IF self.current_function # None
         THEN self.current_function \o ":" \o label
         ELSE label
    ELSE label

operand_to_string(operand) ==
    IF operand.k \in {"Variable", "Label"} THEN Ok(operand.name)
    ELSE Err(AssemblyError("Expected variable or label"))

(* operand_to_operand without the lookup among the defines *)
operand_to_operand_no_defines(self, operand) ==
    CASE operand.k = "Variable" -> Ok(Variable(operand.name))
      [] operand.k = "Label" -> Ok(LabelOperand(operand.name))
      [] operand.k = "Immediate" ->
            CASE operand.imm.k = "Integer" -> Ok(Immediate(Val("I32", operand.imm.v)))
              [] operand.imm.k = "Float"   -> Ok(Immediate(Val("F32", operand.imm.v)))
              [] operand.imm.k = "String"  ->
                   Err(AssemblyError("String immediates are not supported as instruction operands"))

(* `as i32` and `as f32` on the literals of the sources, all of which are  *)
(* representable.                                                          *)
operand_to_operand(self, operand) ==
    CASE operand.k = "Variable" ->
            IF contains_key(self.defines, operand.name)
            THEN LET define_value == self.defines[operand.name] IN
                 CASE define_value.k = "Integer" -> Ok(Immediate(Val("I32", define_value.v)))
                   [] define_value.k = "Float"   -> Ok(Immediate(Val("F32", define_value.v)))
                   [] define_value.k = "String"  ->
                        Err(AssemblyError("Cannot use string define as numeric operand"))
            ELSE Ok(Variable(operand.name))
      [] operand.k = "Label" -> Ok(LabelOperand(operand.name))
      [] operand.k = "Immediate" ->
            CASE operand.imm.k = "Integer" -> Ok(Immediate(Val("I32", operand.imm.v)))
              [] operand.imm.k = "Float"   -> Ok(Immediate(Val("F32", operand.imm.v)))
              [] operand.imm.k = "String"  ->
                   Err(AssemblyError("String immediates are not supported as instruction operands"))

operand_to_datatype(operand) ==
    IF operand.k = "Variable"
    THEN IF operand.name \in DOMAIN TypeKeywords
         THEN Ok(TypeKeywords[operand.name])
         ELSE Err(AssemblyError("Unknown data type: " \o operand.name))
    ELSE Err(AssemblyError("Expected data type"))

last_label(self) ==
    LET instructions == self.program.instructions
        found == {i \in 1..Len(instructions) : instructions[i].op = "Label"}
    IN  IF found = {} THEN None
        ELSE instructions[CHOOSE i \in found : \A j \in found : j <= i].name

(* The arms of assemble_instruction that check the operand count, convert  *)
(* each operand in order and emit one opcode: the variant and, for each    *)
(* operand, the field it becomes and the conversion applied ("label" is    *)
(* operand_to_string followed by qualify_label).                           *)
Arm(opcode_name) ==
    CASE opcode_name = "set" -> [variant |-> "SetVar", fields |-> <<<<"dest", "string">>, <<"value", "operand">>>>]
      [] opcode_name = "copy" -> [variant |-> "CopyVar", fields |-> <<<<"dest", "string">>, <<"source", "string">>>>]
      [] opcode_name = "add" -> [variant |-> "Add", fields |-> <<<<"dest", "string">>, <<"left", "operand">>, <<"right", "operand">>>>]
      [] opcode_name = "sub" -> [variant |-> "Sub", fields |-> <<<<"dest", "string">>, <<"left", "operand">>, <<"right", "operand">>>>]
      [] opcode_name = "mul" -> [variant |-> "Mul", fields |-> <<<<"dest", "string">>, <<"left", "operand">>, <<"right", "operand">>>>]
      [] opcode_name = "div" -> [variant |-> "Div", fields |-> <<<<"dest", "string">>, <<"left", "operand">>, <<"right", "operand">>>>]
      [] opcode_name = "mod" -> [variant |-> "Mod", fields |-> <<<<"dest", "string">>, <<"left", "operand">>, <<"right", "operand">>>>]
      [] opcode_name = "and" -> [variant |-> "And", fields |-> <<<<"dest", "string">>, <<"left", "operand">>, <<"right", "operand">>>>]
      [] opcode_name = "or" -> [variant |-> "Or", fields |-> <<<<"dest", "string">>, <<"left", "operand">>, <<"right", "operand">>>>]
      [] opcode_name = "xor" -> [variant |-> "Xor", fields |-> <<<<"dest", "string">>, <<"left", "operand">>, <<"right", "operand">>>>]
      [] opcode_name = "shl" -> [variant |-> "Shl", fields |-> <<<<"dest", "string">>, <<"left", "operand">>, <<"right", "operand">>>>]
      [] opcode_name = "shr" -> [variant |-> "Shr", fields |-> <<<<"dest", "string">>, <<"left", "operand">>, <<"right", "operand">>>>]
      [] opcode_name = "eq" -> [variant |-> "Eq", fields |-> <<<<"dest", "string">>, <<"left", "operand">>, <<"right", "operand">>>>]
      [] opcode_name = "ne" -> [variant |-> "Ne", fields |-> <<<<"dest", "string">>, <<"left", "operand">>, <<"right", "operand">>>>]
      [] opcode_name = "lt" -> [variant |-> "Lt", fields |-> <<<<"dest", "string">>, <<"left", "operand">>, <<"right", "operand">>>>]
      [] opcode_name = "le" -> [variant |-> "Le", fields |-> <<<<"dest", "string">>, <<"left", "operand">>, <<"right", "operand">>>>]
      [] opcode_name = "gt" -> [variant |-> "Gt", fields |-> <<<<"dest", "string">>, <<"left", "operand">>, <<"right", "operand">>>>]
      [] opcode_name = "ge" -> [variant |-> "Ge", fields |-> <<<<"dest", "string">>, <<"left", "operand">>, <<"right", "operand">>>>]
      [] opcode_name = "neg" -> [variant |-> "Neg", fields |-> <<<<"dest", "string">>, <<"source", "operand">>>>]
      [] opcode_name = "not" -> [variant |-> "Not", fields |-> <<<<"dest", "string">>, <<"source", "operand">>>>]
      [] opcode_name = "jmp" -> [variant |-> "Jmp", fields |-> <<<<"label", "label">>>>]
      [] opcode_name = "jz" -> [variant |-> "Jz", fields |-> <<<<"var", "string">>, <<"label", "label">>>>]
      [] opcode_name = "jnz" -> [variant |-> "Jnz", fields |-> <<<<"var", "string">>, <<"label", "label">>>>]
      [] opcode_name = "pop_arg" -> [variant |-> "PopArg", fields |-> <<<<"dest", "string">>>>]
      [] opcode_name = "push_arg" -> [variant |-> "PushArg", fields |-> <<<<"var", "string">>>>]
      [] opcode_name = "print" -> [variant |-> "Print", fields |-> <<<<"var", "string">>>>]
      [] opcode_name = "alloc" -> [variant |-> "Alloc", fields |-> <<<<"dest", "string">>, <<"size", "operand">>>>]
      [] opcode_name = "free" -> [variant |-> "Free", fields |-> <<<<"ptr", "string">>>>]
      [] opcode_name = "load" -> [variant |-> "Load", fields |-> <<<<"dest", "string">>, <<"ptr", "string">>, <<"dtype", "datatype">>>>]
      [] opcode_name = "store" -> [variant |-> "Store", fields |-> <<<<"ptr", "string">>, <<"source", "string">>, <<"dtype", "datatype">>>>]
      [] opcode_name = "cast" -> [variant |-> "Cast", fields |-> <<<<"dest", "string">>, <<"source", "string">>, <<"target_type", "datatype">>>>]
      [] opcode_name = "sqrt" -> [variant |-> "Sqrt", fields |-> <<<<"dest", "string">>, <<"source", "operand">>>>]
      [] opcode_name = "pow" -> [variant |-> "Pow", fields |-> <<<<"dest", "string">>, <<"base", "operand">>, <<"exp", "operand">>>>]
      [] opcode_name = "abs" -> [variant |-> "Abs", fields |-> <<<<"dest", "string">>, <<"source", "operand">>>>]
      [] opcode_name = "min" -> [variant |-> "Min", fields |-> <<<<"dest", "string">>, <<"a", "operand">>, <<"b", "operand">>>>]
      [] opcode_name = "max" -> [variant |-> "Max", fields |-> <<<<"dest", "string">>, <<"a", "operand">>, <<"b", "operand">>>>]
      [] opcode_name = "sin" -> [variant |-> "Sin", fields |-> <<<<"dest", "string">>, <<"source", "operand">>>>]
      [] opcode_name = "cos" -> [variant |-> "Cos", fields |-> <<<<"dest", "string">>, <<"source", "operand">>>>]
      [] opcode_name = "tan" -> [variant |-> "Tan", fields |-> <<<<"dest", "string">>, <<"source", "operand">>>>]
      [] OTHER -> [variant |-> None, fields |-> <<>>]

convert(self, kind, operand) ==
    CASE kind = "string"   -> operand_to_string(operand)
      [] kind = "operand"  -> operand_to_operand(self, operand)
      [] kind = "datatype" -> operand_to_datatype(operand)
      [] kind = "label"    ->
            LET label == operand_to_string(operand)
            IN  IF label.ok THEN Ok(qualify_label(self, label.val)) ELSE label

(* The first error of a sequence of conversions, as the ? operator leaves  *)
(* at it; Ok of the converted values otherwise.                            *)
collect(converted) ==
    LET failed == {j \in 1..Len(converted) : ~converted[j].ok}
    IN  IF failed = {} THEN Ok([j \in 1..Len(converted) |-> converted[j].val])
        ELSE Err(converted[CHOOSE j \in failed : \A i \in failed : j <= i].err)

expects(opcode_name, n) ==
    AssemblyError(opcode_name \o " expects " \o n)

(* assemble_instruction: the assembler after the instruction, or the error *)
assemble_instruction(self, instr) ==
    LET opcode_name == instr.opcode
        operands == instr.operands
    IN
    CASE opcode_name = "func_begin" ->
            IF Len(operands) # 1 THEN Err(expects(opcode_name, "1 operand (return type)"))
            ELSE LET name == last_label(self)
                     return_type == operand_to_datatype(operands[1])
                 IN  IF name = None THEN Err(AssemblyError("func_begin must follow a label"))
                     ELSE IF ~return_type.ok THEN return_type
                     ELSE Ok([self EXCEPT
                                !.current_function = name,
                                !.function_starts =
                                    insert(@, name, Len(self.program.instructions)),
                                !.program = emit(@, FuncBegin(name, return_type.val))])
      [] opcode_name = "func_end" ->
            LET closed ==
                  IF self.current_function # None
                  THEN LET func_name == self.current_function IN
                       [self EXCEPT
                          !.program = add_function(@,
                              [name |-> func_name, return_type |-> "I32",
                               start_ip |-> self.function_starts[func_name],
                               end_ip |-> Len(self.program.instructions)]),
                          !.current_function = None]
                  ELSE self
            IN  Ok([closed EXCEPT !.program = emit(@, FuncEnd)])
      [] opcode_name = "call" ->
            IF Len(operands) < 2 THEN Err(expects(opcode_name, "at least 2 operands"))
            ELSE LET res == operand_to_string(operands[1])
                     func == operand_to_string(operands[2])
                     args == collect([j \in 1..(Len(operands) - 2) |->
                                         operand_to_operand(self, operands[j + 2])])
                 IN  IF ~res.ok THEN res
                     ELSE IF ~func.ok THEN func
                     ELSE IF ~args.ok THEN args
                     ELSE Ok([self EXCEPT
                                !.program = emit(@, Call(res.val, func.val, args.val))])
      [] opcode_name = "ret" ->
            IF Len(operands) > 0
            THEN LET value == operand_to_operand(self, operands[1])
                 IN  IF ~value.ok THEN value
                     ELSE Ok([self EXCEPT !.program = emit(@, Return(value.val))])
            ELSE Ok([self EXCEPT !.program = emit(@, Return(NoOperand))])
      [] Arm(opcode_name).variant # None ->
            LET arm == Arm(opcode_name)
                fields == arm.fields
            IN  IF Len(operands) # Len(fields)
                THEN Err(expects(opcode_name, "another number of operands"))
                ELSE LET values == collect([j \in 1..Len(fields) |->
                                               convert(self, fields[j][2], operands[j])])
                     IN  IF ~values.ok THEN values
                         ELSE Ok([self EXCEPT !.program = emit(@,
                                    [field \in {"op"} \cup {fields[j][1] : j \in 1..Len(fields)} |->
                                        IF field = "op" THEN arm.variant
                                        ELSE values.val[CHOOSE j \in 1..Len(fields) :
                                                            fields[j][1] = field]])])
      [] OTHER -> Err(AssemblyError("Unknown opcode: " \o opcode_name))

(* assemble_statement: the assembler after the statement, or the error *)
assemble_statement(self, statement) ==
    CASE statement.s = "Label" ->
            LET qualified == qualify_label(self, statement.name)
            IN  Ok([self EXCEPT
                      !.label_positions =
                          insert(@, qualified, Len(self.program.instructions)),
                      !.program = emit(@, Label(qualified))])
      [] statement.s = "LocalDecl" ->
            Ok([self EXCEPT !.program = emit(@, CreateLocal(statement.dtype, statement.name))])
      [] statement.s = "Instruction" -> assemble_instruction(self, statement)

resolve_labels(self) == Ok(self)

-----------------------------------------------------------------------------
(* Assembling a source: assemble_program takes the defines and the data    *)
(* section, then the text section one statement at a time, and returns     *)
(* the image after resolve_labels.  The text section is an input: each     *)
(* statement is drawn when the assembler reaches it, and ast.text_section  *)
(* records the statements read so far.                                     *)

(* "exit" has no arm in assemble_instruction; u is a label no source       *)
(* defines.                                                                *)
AsmStatements ==
    {StatementLabel("a"), StatementLabel("f"), StatementLabel(".l"),
     StatementLocalDecl("x", "I32"),
     StatementInstruction("func_begin", <<AsmVariable("i32")>>),
     StatementInstruction("func_end", <<>>),
     StatementInstruction("set", <<AsmVariable("x"), AsmVariable("N")>>),
     StatementInstruction("set", <<AsmVariable("N"), AsmImmediate(Integer(2))>>),
     StatementInstruction("copy", <<AsmVariable("x"), AsmVariable("N")>>),
     StatementInstruction("add", <<AsmVariable("x"), AsmVariable("N"),
                                   AsmImmediate(Integer(-1))>>),
     StatementInstruction("jmp", <<AsmLabel(".l")>>),
     StatementInstruction("jz", <<AsmVariable("x"), AsmVariable("a")>>),
     StatementInstruction("jnz", <<AsmVariable("x"), AsmVariable("u")>>),
     StatementInstruction("call", <<AsmVariable("x"), AsmVariable("f"), AsmVariable("N"),
                                    AsmImmediate(Float(1))>>),
     StatementInstruction("ret", <<>>),
     StatementInstruction("exit", <<AsmImmediate(Integer(0))>>)}

(* The mnemonics of the arms of Arm *)
Mnemonics ==
    {"set", "copy", "add", "sub", "mul", "div", "mod", "and", "or", "xor", "shl", "shr",
     "eq", "ne", "lt", "le", "gt", "ge", "neg", "not", "jmp", "jz", "jnz", "pop_arg",
     "push_arg", "print", "alloc", "free", "load", "store", "cast", "sqrt", "pow", "abs",
     "min", "max", "sin", "cos", "tan"}

(* One instruction per mnemonic, with a name where the arm wants a name,  *)
(* a type where it wants a type, and the possibly defined N and then -1    *)
(* where it wants values; calls, returns, and locals of several types.     *)
CodecStatements ==
    {StatementInstruction(m,
        [j \in 1..Len(Arm(m).fields) |->
            CASE Arm(m).fields[j][2] = "string"   -> AsmVariable("x")
              [] Arm(m).fields[j][2] = "label"    -> AsmLabel(".l")
              [] Arm(m).fields[j][2] = "datatype" -> AsmVariable("u8")
              [] Arm(m).fields[j][2] = "operand"  ->
                    IF j = 2 THEN AsmVariable("N") ELSE AsmImmediate(Integer(-1))]) :
        m \in Mnemonics}
    \cup {StatementInstruction("call", <<AsmVariable("x"), AsmVariable("f"), AsmVariable("N"),
                                          AsmImmediate(Float(1)), AsmVariable("u")>>),
          StatementInstruction("call", <<AsmVariable("x"), AsmVariable("f")>>),
          StatementInstruction("ret", <<>>),
          StatementInstruction("ret", <<AsmImmediate(Float(-1))>>),
          StatementInstruction("set", <<AsmVariable("x"), AsmImmediate(Integer(300))>>),
          StatementInstruction("jmp", <<AsmVariable("a")>>),
          StatementLabel(".l")}
    \cup {StatementLocalDecl("x", TypeKeywords[t]) : t \in {"i8", "i64", "f64", "ptr", "void"}}

DecodeStatements ==
    {StatementInstruction("set", <<AsmVariable("x"), AsmVariable("N")>>),
     StatementInstruction("call", <<AsmVariable("x"), AsmVariable("f"),
                                    AsmImmediate(Integer(-1))>>),
     StatementInstruction("ret", <<>>),
     StatementInstruction("load", <<AsmVariable("x"), AsmVariable("g"), AsmVariable("u8")>>),
     StatementInstruction("jmp", <<AsmLabel(".l")>>),
     StatementLocalDecl("x", "F64")}

(* The statements a place of the text section may hold *)
StatementChoices(place) ==
    CASE place = "any" -> AsmStatements
      [] place = "codec" -> CodecStatements
      [] place = "decode" -> DecodeStatements
      [] place = "label" -> {StatementLabel("u"), StatementLabel(".l"), StatementLabel("x")}
      [] place = "a" -> {StatementLabel("a")}
      [] place = "f" -> {StatementLabel("f")}
      [] place = "func_begin" -> {StatementInstruction("func_begin", <<AsmVariable("i32")>>)}
      [] place = "func_end" -> {StatementInstruction("func_end", <<>>)}
      [] place = "name" -> {StatementLabel("a"), StatementLabel("f")}
      [] place = "scoped" ->
            {StatementLabel(".l"), StatementLocalDecl("x", "I32"),
             StatementInstruction("jmp", <<AsmLabel(".l")>>),
             StatementInstruction("jnz", <<AsmVariable("x"), AsmLabel(".l")>>)}
      [] place = "typed_begin" ->
            {StatementInstruction("func_begin", <<AsmVariable(t)>>) : t \in DOMAIN TypeKeywords}

DefineChoices ==
    {<<>>, <<Define("N", Integer(3))>>, <<Define("N", Float(5))>>}

(* No VM has been constructed. *)
NoMachine ==
    /\ program = Program_new
    /\ ip = 0
    /\ globals = EmptyMap
    /\ call_stack = <<>>
    /\ current_frame = CallFrame("main", 0, EmptyMap, None, <<>>)
    /\ heap = EmptyMap
    /\ next_heap_addr = HeapBase
    /\ running = FALSE
    /\ pc = "none"
    /\ last = [current_ip |-> 0, instruction |-> NoInstruction, result |-> "",
               command |-> "none"]
    /\ result = "none"
    /\ freed = {}
    /\ calls = <<>>
    /\ debug_mode = FALSE
    /\ breakpoints = {}
    /\ debug_callback = None
    /\ overflow_checks = TRUE

(* assemble_program, before the text section: the defines and the data    *)
(* section                                                                 *)
assemble_data(source) ==
    [Assembler_new EXCEPT
       !.defines = [name \in {source.defines[j].name : j \in 1..Len(source.defines)} |->
                      source.defines[CHOOSE j \in 1..Len(source.defines) :
                         /\ source.defines[j].name = name
                         /\ \A i \in (j + 1)..Len(source.defines) :
                               source.defines[i].name # name].value],
       !.program =
           [@ EXCEPT
              !.globals = [j \in 1..Len(source.data_section) |->
                              Global(source.data_section[j].name,
                                     source.data_section[j].dtype)],
              !.strings = string_pool(source.data_section)]]

(* assemble_program, the text section: the assembler after its statements, *)
(* or the first error                                                      *)
RECURSIVE assemble_text(_, _)
assemble_text(self, text_section) ==
    IF text_section = <<>> THEN Ok(self)
    ELSE LET assembled == assemble_statement(self, Head(text_section))
         IN  IF assembled.ok THEN assemble_text(assembled.val, Tail(text_section))
             ELSE assembled

(* Assembler::assemble_program as a function of the parsed source *)
Assembler_assemble_program(source) ==
    LET assembled == assemble_text(assemble_data(source), source.text_section)
    IN  IF ~assembled.ok THEN assembled
        ELSE LET resolved == resolve_labels(assembled.val)
             IN  IF resolved.ok THEN Ok(resolved.val.program) ELSE resolved

(* assemble_program, up to the text section *)
AssembleProgram ==
    /\ tool.pc = "assemble_program"
    /\ assembler' = assemble_data(ast)
    /\ tool' = [tool EXCEPT !.pc = "text"]
    /\ UNCHANGED <<ast, vmvars, codecvars, listing, loader, lexer>>

(* assemble_program, one statement of the text section *)
AssembleStatement ==
    /\ tool.pc = "text"
    /\ Len(ast.text_section) < Len(tool.plan)
    /\ \E statement \in StatementChoices(tool.plan[Len(ast.text_section) + 1]) :
          LET assembled == assemble_statement(assembler, statement)
          IN  /\ ast' = [ast EXCEPT !.text_section = Append(@, statement)]
              /\ IF assembled.ok
                 THEN /\ assembler' = assembled.val
                      /\ UNCHANGED tool
                 ELSE /\ tool' = [tool EXCEPT !.pc = "failed", !.result = assembled]
                      /\ UNCHANGED assembler
    /\ UNCHANGED <<vmvars, codecvars, listing, loader, lexer>>

(* assemble_program, after the last statement *)
AssembleReturn ==
    /\ tool.pc = "text"
    /\ LET resolved == resolve_labels(assembler)
       IN  tool' = IF resolved.ok
                   THEN [tool EXCEPT !.pc = "assembled",
                                     !.result = Ok(resolved.val.program)]
                   ELSE [tool EXCEPT !.pc = "failed", !.result = resolved]
    /\ UNCHANGED <<ast, assembler, vmvars, codecvars, listing, loader, lexer>>

NextAsm == AssembleProgram \/ AssembleStatement \/ AssembleReturn

(* assemble is about to hand a parsed source to a new Assembler: the       *)
(* defines are drawn here, the statements of the text section as they are  *)
(* read, each from the set its place in the plan names.                    *)
Assembling(plan, encodings) ==
    /\ NoMachine
    /\ \E defines \in DefineChoices :
          ast = [defines |-> defines,
                 data_section |-> <<DataDeclaration("g", "I32", NoValue)>>,
                 text_section |-> <<>>]
    /\ assembler = [program |-> 0]
    /\ tool = [pc |-> "assemble_program", plan |-> plan, encodings |-> encodings,
               result |-> Ok(0)]
    /\ encoded = <<>>
    /\ decoded = [input |-> [kind |-> "none", n |-> 0]]
    /\ listing = [pc |-> "idle"]
    /\ loader = [pc |-> "idle"]
    /\ lexer = [pc |-> "idle"]

InitAsm == Assembling([j \in 1..MaxStatements |-> "any"], 0)

SpecAsm == InitAsm /\ [][NextAsm]_vars

-----------------------------------------------------------------------------
(* Properties of the assembled image *)

(* assemble_program has returned Ok(image). *)
Assembled == tool.pc = "assembled"

image == tool.result.val

(* The indices (from 0) of the image's instructions of the given variants *)
At(ops) == {i \in 0..(Len(image.instructions) - 1) : image.instructions[i + 1].op \in ops}

(* The step reads a statement of the given opcode from the text section. *)
Reads(opcode_name) ==
    /\ tool.pc = "text"
    /\ Len(ast'.text_section) = Len(ast.text_section) + 1
    /\ LET statement == ast'.text_section[Len(ast'.text_section)]
       IN  /\ statement.s = "Instruction"
           /\ statement.opcode = opcode_name

(* The step's statement was assembled. *)
Accepted == tool'.pc = "text"

(* The step's statement was refused with an assembly error. *)
Refused ==
    /\ tool'.pc = "failed"
    /\ tool'.result.err.kind = "AssemblyError"

(* C15 (as claimed): no two Label instructions of an assembled image carry *)
(* the same name.                                                          *)
C15_Claimed ==
    Assembled =>
       \A i, j \in At({"Label"}) :
          image.instructions[i + 1].name = image.instructions[j + 1].name => i = j

(* C18 (as claimed): func_begin is accepted exactly when the instruction   *)
(* emitted last is a Label, whose name becomes the function's name, and    *)
(* is refused with an assembly error otherwise.                            *)
C18_Claimed ==
    [][Reads("func_begin") =>
          LET instructions == assembler.program.instructions
              n == Len(instructions)
          IN  IF n > 0 /\ instructions[n].op = "Label"
              THEN /\ Accepted
                   /\ assembler'.program.instructions
                         = Append(instructions, FuncBegin(instructions[n].name, "I32"))
              ELSE Refused]_vars

(* C19 (as claimed): in an assembled image every FuncBegin at index i has  *)
(* a function entry under its name with start_ip = i and end_ip the index  *)
(* of a later FuncEnd, and every FuncEnd is the end of some entry.         *)
C19_Claimed ==
    Assembled =>
       /\ \A i \in At({"FuncBegin"}) :
             LET name == image.instructions[i + 1].name
             IN  /\ contains_key(image.functions, name)
                 /\ image.functions[name].start_ip = i
                 /\ image.functions[name].end_ip > i
                 /\ image.functions[name].end_ip \in At({"FuncEnd"})
       /\ \A j \in At({"FuncEnd"}) :
             \E name \in DOMAIN image.functions : image.functions[name].end_ip = j

(* C20 (as claimed): in an assembled image the label of every Jmp, Jz and  *)
(* Jnz is a key of the label table.                                        *)
C20_Claimed ==
    Assembled =>
       \A i \in At({"Jmp", "Jz", "Jnz"}) :
          contains_key(image.labels, image.instructions[i + 1].label)

(* assemble_program has returned, with an image or an error. *)
Returned == tool.pc \in {"assembled", "failed"}

(* The operand positions of an instruction that the opcode keeps as an     *)
(* Operand: a value read when the instruction runs.                        *)
ValuePositions(statement) ==
    CASE statement.opcode = "call" -> 3..Len(statement.operands)
      [] statement.opcode = "ret"  -> {1} \cap (1..Len(statement.operands))
      [] OTHER ->
            LET fields == Arm(statement.opcode).fields
            IN  {j \in 1..Len(fields) : fields[j][2] = "operand"}

AllPositions(statement) == 1..Len(statement.operands)

(* The source with every use of a numerically defined name as a variable   *)
(* operand, in the positions given, replaced by the literal of its value.  *)
Replaced(source, Positions(_)) ==
    LET assembler_defines == assemble_data(source).defines
        numeric == {name \in DOMAIN assembler_defines :
                       assembler_defines[name].k \in {"Integer", "Float"}}
        replace(statement) ==
            IF statement.s # "Instruction" THEN statement
            ELSE [statement EXCEPT !.operands =
                    [j \in 1..Len(statement.operands) |->
                        LET operand == statement.operands[j]
                        IN  IF /\ j \in Positions(statement)
                               /\ operand.k = "Variable"
                               /\ operand.name \in numeric
                            THEN AsmImmediate(assembler_defines[operand.name])
                            ELSE operand]]
    IN  [source EXCEPT !.text_section =
            [j \in 1..Len(source.text_section) |-> replace(source.text_section[j])]]

(* Both fail, or both give images with the same instructions, globals,     *)
(* functions and labels.                                                   *)
SameImage(r1, r2) ==
    /\ r1.ok = r2.ok
    /\ r1.ok =>
          /\ r1.val.instructions = r2.val.instructions
          /\ r1.val.globals = r2.val.globals
          /\ r1.val.functions = r2.val.functions
          /\ r1.val.labels = r2.val.labels

(* C16 (as claimed): a source using a numeric define N = k assembles to    *)
(* the same image as the source with every variable operand N, in any      *)
(* operand position, replaced by the literal k.                            *)
C16_Claimed ==
    Returned => SameImage(tool.result, Assembler_assemble_program(Replaced(ast, AllPositions)))

(* C16: a source using a numeric define N = k assembles to the same image  *)
(* as the source with every variable operand N replaced by the literal k   *)
(* in the positions the opcode keeps as an Operand.                        *)
C16_DefineSubstitution ==
    Returned => SameImage(tool.result, Assembler_assemble_program(Replaced(ast, ValuePositions)))

(* An image was assembled from a source that uses a defined N as a value,  *)
(* and holds the immediate in its place.                                   *)
C16_Witness ==
    /\ Assembled
    /\ Replaced(ast, ValuePositions) # ast
    /\ \E i \in At({"SetVar"}) :
          /\ image.instructions[i + 1].value.k = "Immediate"
          /\ ast.text_section[i + 1].operands[2] = AsmVariable("N")

-----------------------------------------------------------------------------
(* The binary image (src/src/bytecode): bytes are 0..255, a buffer is a    *)
(* sequence of bytes, an io::Error is a record [kind, message].            *)

MAGIC == 1447183104

VERSION == 1

IoError(kind, message) == [kind |-> kind, message |-> message]

UnexpectedEof == IoError("UnexpectedEof", "Unexpected end of bytecode")

InvalidData(message) == IoError("InvalidData", message)

(* DataType's discriminants, from 0 *)
DataTypes ==
    <<"I8", "I16", "I32", "I64", "U8", "U16", "U32", "U64", "F32", "F64", "Ptr", "Void">>

as_u8(dtype) == (CHOOSE j \in 1..Len(DataTypes) : DataTypes[j] = dtype) - 1

(* The UTF-8 bytes of the characters of the names *)
Utf8 ==
    [a |-> 97, f |-> 102, g |-> 103, l |-> 108, u |-> 117, x |-> 120, N |-> 78]

utf8(c) == CASE c = "." -> 46 [] c = ":" -> 58 [] OTHER -> Utf8[c]

as_bytes(name) == [j \in 1..Len(chars(name)) |-> utf8(chars(name)[j])]

(* String::from_utf8 on the bytes of those characters; any other byte      *)
(* stands for an invalid sequence.                                         *)
RECURSIVE from_utf8(_)
from_utf8(bytes) ==
    IF bytes = <<>> THEN Ok("")
    ELSE LET b == Head(bytes)
             rest == from_utf8(Tail(bytes))
             known == {c \in DOMAIN Utf8 : Utf8[c] = b}
         IN  IF ~rest.ok THEN rest
             ELSE IF b = 46 THEN Ok("." \o rest.val)
             ELSE IF b = 58 THEN Ok(":" \o rest.val)
             ELSE IF known # {} THEN Ok((CHOOSE c \in known : TRUE) \o rest.val)
             ELSE Err(InvalidData("Invalid UTF-8"))

(* The IEEE 754 bits of the floats of the sources (in halves), high byte   *)
(* first: f32 and f64.                                                     *)
FloatBits ==
    [h \in -2..5 |->
        CASE h = -2 -> <<<<191, 128, 0, 0>>, <<191, 240, 0, 0, 0, 0, 0, 0>>>>
          [] h = -1 -> <<<<191, 0, 0, 0>>,   <<191, 224, 0, 0, 0, 0, 0, 0>>>>
          [] h = 0  -> <<<<0, 0, 0, 0>>,     <<0, 0, 0, 0, 0, 0, 0, 0>>>>
          [] h = 1  -> <<<<63, 0, 0, 0>>,    <<63, 224, 0, 0, 0, 0, 0, 0>>>>
          [] h = 2  -> <<<<63, 128, 0, 0>>,  <<63, 240, 0, 0, 0, 0, 0, 0>>>>
          [] h = 3  -> <<<<63, 192, 0, 0>>,  <<63, 248, 0, 0, 0, 0, 0, 0>>>>
          [] h = 4  -> <<<<64, 0, 0, 0>>,    <<64, 0, 0, 0, 0, 0, 0, 0>>>>
          [] h = 5  -> <<<<64, 32, 0, 0>>,   <<64, 4, 0, 0, 0, 0, 0, 0>>>>]

reversed(bytes) == [j \in 1..Len(bytes) |-> bytes[Len(bytes) + 1 - j]]

float_to_le_bytes(h, width) == reversed(FloatBits[h][IF width = 4 THEN 1 ELSE 2])

(* f32::from_le_bytes and f64::from_le_bytes; bits of no float of the      *)
(* sources decode to themselves.                                           *)
float_from_le_bytes(bytes) ==
    LET width == Len(bytes)
        known == {h \in DOMAIN FloatBits : float_to_le_bytes(h, width) = bytes}
    IN  IF known # {} THEN CHOOSE h \in known : TRUE ELSE [bits |-> bytes]

(* Concatenation of a sequence of buffers *)
RECURSIVE concat(_)
concat(buffers) == IF buffers = <<>> THEN <<>> ELSE Head(buffers) \o concat(Tail(buffers))

(* The first error among results, or Ok of the concatenated buffers: each  *)
(* write is followed by ?.                                                 *)
written(results) ==
    LET failed == {j \in 1..Len(results) : ~results[j].ok}
    IN  IF failed = {} THEN Ok(concat([j \in 1..Len(results) |-> results[j].val]))
        ELSE Err(results[CHOOSE j \in failed : \A i \in failed : j <= i].err)

-----------------------------------------------------------------------------
(* encoder.rs *)

encode_string(name) == LET bytes == as_bytes(name) IN to_le_bytes(Len(bytes), 4) \o bytes

encode_operand(operand) ==
    CASE operand.k = "Variable" -> Ok(<<0>> \o encode_string(operand.name))
      [] operand.k = "Immediate" ->
            CASE operand.val.t = "I32" -> Ok(<<1, 0>> \o to_le_bytes(operand.val.v, 4))
              [] operand.val.t = "I64" -> Ok(<<1, 1>> \o to_le_bytes(operand.val.v, 8))
              [] operand.val.t = "F32" -> Ok(<<1, 2>> \o float_to_le_bytes(operand.val.v, 4))
              [] operand.val.t = "F64" -> Ok(<<1, 3>> \o float_to_le_bytes(operand.val.v, 8))
              [] OTHER -> Err(InvalidData("Unsupported value type in bytecode"))
      [] operand.k = "Label" -> Ok(<<2>> \o encode_string(operand.name))
      [] operand.k = "Type" -> Ok(<<3, as_u8(operand.dtype)>>)

(* The arms of encode_opcode that write the tag and then each field in     *)
(* turn: the tag and, per field, what is written.                          *)
EncodeArm(variant) ==
    CASE variant = "CreateLocal" -> [tag |-> 0, fields |-> <<<<"dtype", "datatype">>, <<"name", "string">>>>]
      [] variant = "CreateGlobal" -> [tag |-> 1, fields |-> <<<<"dtype", "datatype">>, <<"name", "string">>>>]
      [] variant = "DeleteLocal" -> [tag |-> 2, fields |-> <<<<"name", "string">>>>]
      [] variant = "SetVar" -> [tag |-> 3, fields |-> <<<<"dest", "string">>, <<"value", "operand">>>>]
      [] variant = "CopyVar" -> [tag |-> 4, fields |-> <<<<"dest", "string">>, <<"source", "string">>>>]
      [] variant = "Add" -> [tag |-> 10, fields |-> <<<<"dest", "string">>, <<"left", "operand">>, <<"right", "operand">>>>]
      [] variant = "Sub" -> [tag |-> 11, fields |-> <<<<"dest", "string">>, <<"left", "operand">>, <<"right", "operand">>>>]
      [] variant = "Mul" -> [tag |-> 12, fields |-> <<<<"dest", "string">>, <<"left", "operand">>, <<"right", "operand">>>>]
      [] variant = "Div" -> [tag |-> 13, fields |-> <<<<"dest", "string">>, <<"left", "operand">>, <<"right", "operand">>>>]
      [] variant = "Mod" -> [tag |-> 14, fields |-> <<<<"dest", "string">>, <<"left", "operand">>, <<"right", "operand">>>>]
      [] variant = "Neg" -> [tag |-> 15, fields |-> <<<<"dest", "string">>, <<"source", "operand">>>>]
      [] variant = "Alloc" -> [tag |-> 5, fields |-> <<<<"dest", "string">>, <<"size", "operand">>>>]
      [] variant = "Free" -> [tag |-> 6, fields |-> <<<<"ptr", "string">>>>]
      [] variant = "Load" -> [tag |-> 7, fields |-> <<<<"dest", "string">>, <<"ptr", "string">>, <<"dtype", "datatype">>>>]
      [] variant = "Store" -> [tag |-> 8, fields |-> <<<<"ptr", "string">>, <<"source", "string">>, <<"dtype", "datatype">>>>]
      [] variant = "GetAddr" -> [tag |-> 9, fields |-> <<<<"dest", "string">>, <<"var", "string">>>>]
      [] variant = "And" -> [tag |-> 16, fields |-> <<<<"dest", "string">>, <<"left", "operand">>, <<"right", "operand">>>>]
      [] variant = "Or" -> [tag |-> 17, fields |-> <<<<"dest", "string">>, <<"left", "operand">>, <<"right", "operand">>>>]
      [] variant = "Xor" -> [tag |-> 18, fields |-> <<<<"dest", "string">>, <<"left", "operand">>, <<"right", "operand">>>>]
      [] variant = "Not" -> [tag |-> 19, fields |-> <<<<"dest", "string">>, <<"source", "operand">>>>]
      [] variant = "Shl" -> [tag |-> 20, fields |-> <<<<"dest", "string">>, <<"left", "operand">>, <<"right", "operand">>>>]
      [] variant = "Shr" -> [tag |-> 21, fields |-> <<<<"dest", "string">>, <<"left", "operand">>, <<"right", "operand">>>>]
      [] variant = "Eq" -> [tag |-> 30, fields |-> <<<<"dest", "string">>, <<"left", "operand">>, <<"right", "operand">>>>]
      [] variant = "Ne" -> [tag |-> 31, fields |-> <<<<"dest", "string">>, <<"left", "operand">>, <<"right", "operand">>>>]
      [] variant = "Lt" -> [tag |-> 32, fields |-> <<<<"dest", "string">>, <<"left", "operand">>, <<"right", "operand">>>>]
      [] variant = "Le" -> [tag |-> 33, fields |-> <<<<"dest", "string">>, <<"left", "operand">>, <<"right", "operand">>>>]
      [] variant = "Gt" -> [tag |-> 34, fields |-> <<<<"dest", "string">>, <<"left", "operand">>, <<"right", "operand">>>>]
      [] variant = "Ge" -> [tag |-> 35, fields |-> <<<<"dest", "string">>, <<"left", "operand">>, <<"right", "operand">>>>]
      [] variant = "Label" -> [tag |-> 50, fields |-> <<<<"name", "string">>>>]
      [] variant = "Jmp" -> [tag |-> 51, fields |-> <<<<"label", "string">>>>]
      [] variant = "Jz" -> [tag |-> 52, fields |-> <<<<"var", "string">>, <<"label", "string">>>>]
      [] variant = "Jnz" -> [tag |-> 53, fields |-> <<<<"var", "string">>, <<"label", "string">>>>]
      [] variant = "FuncBegin" -> [tag |-> 60, fields |-> <<<<"name", "string">>, <<"return_type", "datatype">>>>]
      [] variant = "FuncEnd" -> [tag |-> 61, fields |-> <<>>]
      [] variant = "PushArg" -> [tag |-> 64, fields |-> <<<<"var", "string">>>>]
      [] variant = "PopArg" -> [tag |-> 65, fields |-> <<<<"dest", "string">>>>]
      [] variant = "Cast" -> [tag |-> 80, fields |-> <<<<"dest", "string">>, <<"source", "string">>, <<"target_type", "datatype">>>>]
      [] variant = "Sqrt" -> [tag |-> 90, fields |-> <<<<"dest", "string">>, <<"source", "operand">>>>]
      [] variant = "Pow" -> [tag |-> 91, fields |-> <<<<"dest", "string">>, <<"base", "operand">>, <<"exp", "operand">>>>]
      [] variant = "Abs" -> [tag |-> 92, fields |-> <<<<"dest", "string">>, <<"source", "operand">>>>]
      [] variant = "Min" -> [tag |-> 93, fields |-> <<<<"dest", "string">>, <<"a", "operand">>, <<"b", "operand">>>>]
      [] variant = "Max" -> [tag |-> 94, fields |-> <<<<"dest", "string">>, <<"a", "operand">>, <<"b", "operand">>>>]
      [] variant = "Sin" -> [tag |-> 95, fields |-> <<<<"dest", "string">>, <<"source", "operand">>>>]
      [] variant = "Cos" -> [tag |-> 96, fields |-> <<<<"dest", "string">>, <<"source", "operand">>>>]
      [] variant = "Tan" -> [tag |-> 97, fields |-> <<<<"dest", "string">>, <<"source", "operand">>>>]
      [] variant = "Print" -> [tag |-> 70, fields |-> <<<<"var", "string">>>>]
      [] variant = "Input" -> [tag |-> 72, fields |-> <<<<"dest", "string">>>>]
      [] variant = "Exit" -> [tag |-> 71, fields |-> <<<<"code", "operand">>>>]

encode_field(kind, value) ==
    CASE kind = "string"   -> Ok(encode_string(value))
      [] kind = "operand"  -> encode_operand(value)
      [] kind = "datatype" -> Ok(<<as_u8(value)>>)

encode_opcode(opcode) ==
    CASE opcode.op = "Call" ->
            written(<<Ok(<<62>>),
                      IF opcode.result # None
                      THEN Ok(<<1>> \o encode_string(opcode.result))
                      ELSE Ok(<<0>>),
                      Ok(encode_string(opcode.func)),
                      Ok(to_le_bytes(Len(opcode.args), 4))>>
                    \o [j \in 1..Len(opcode.args) |-> encode_operand(opcode.args[j])])
      [] opcode.op = "Return" ->
            written(<<Ok(<<63>>),
                      IF opcode.value # NoOperand
                      THEN written(<<Ok(<<1>>), encode_operand(opcode.value)>>)
                      ELSE Ok(<<0>>)>>)
      [] OTHER ->
            LET arm == EncodeArm(opcode.op)
            IN  written(<<Ok(<<arm.tag>>)>>
                        \o [j \in 1..Len(arm.fields) |->
                               encode_field(arm.fields[j][2], opcode[arm.fields[j][1]])])

encode_globals(program_globals) ==
    Ok(to_le_bytes(Len(program_globals), 4)
       \o concat([j \in 1..Len(program_globals) |->
                     encode_string(program_globals[j].name)
                     \o <<as_u8(program_globals[j].dtype)>>]))

(* The orders in which a HashMap with the given keys may be iterated *)
Orders(keys) ==
    {order \in [1..Cardinality(keys) -> keys] :
        \A i, j \in 1..Cardinality(keys) : order[i] = order[j] => i = j}

(* encode_functions, iterating the map in the given order of its keys *)
encode_functions(functions, order) ==
    Ok(to_le_bytes(Len(order), 4)
       \o concat([j \in 1..Len(order) |->
                     encode_string(order[j])
                     \o <<as_u8(functions[order[j]].return_type)>>
                     \o to_le_bytes(functions[order[j]].start_ip, 4)
                     \o to_le_bytes(functions[order[j]].end_ip, 4)]))

(* encode_labels writing the entries in one fixed order of the keys,       *)
(* whatever order the map holds them in                                    *)
encode_labels_in_fixed_order(labels, order) ==
    LET fixed == CHOOSE o \in Orders(DOMAIN labels) : TRUE
    IN  Ok(to_le_bytes(Len(fixed), 4)
           \o concat([j \in 1..Len(fixed) |->
                         encode_string(fixed[j]) \o to_le_bytes(labels[fixed[j]], 4)]))

(* encode_labels, iterating the map in the given order of its keys *)
encode_labels(labels, order) ==
    Ok(to_le_bytes(Len(order), 4)
       \o concat([j \in 1..Len(order) |->
                     encode_string(order[j]) \o to_le_bytes(labels[order[j]], 4)]))

encode_instructions(instructions) ==
    written(<<Ok(to_le_bytes(Len(instructions), 4))>>
            \o [j \in 1..Len(instructions) |-> encode_opcode(instructions[j])])

(* encode, with the iteration orders of the function and label tables *)
encode(prog, function_order, label_order) ==
    written(<<Ok(to_le_bytes(MAGIC, 4)),
              Ok(to_le_bytes(VERSION, 4)),
              encode_globals(prog.globals),
              encode_functions(prog.functions, function_order),
              encode_labels(prog.labels, label_order),
              encode_instructions(prog.instructions)>>)

-----------------------------------------------------------------------------
(* decoder.rs: a read returns the value read and the cursor after it. *)

Read(v, cursor) == Ok([v |-> v, cursor |-> cursor])

(* result?: the error returned, or what follows with the value *)
and_then(r, F(_)) == IF r.ok THEN F(r.val) ELSE r

slice(data, cursor, n) == SubSeq(data, cursor + 1, cursor + n)

read_u8(data, cursor) ==
    IF cursor >= Len(data) THEN Err(UnexpectedEof)
    ELSE Read(data[cursor + 1], cursor + 1)

(* read_u32 taking the bytes beyond the end of the data as zero *)
read_u32_padded(data, cursor) ==
    Read(from_le_bytes(SubSeq(data, cursor + 1,
                              IF cursor + 4 > Len(data) THEN Len(data) ELSE cursor + 4)),
         cursor + 4)

read_u32(data, cursor) ==
    IF cursor + 4 > Len(data) THEN Err(UnexpectedEof)
    ELSE Read(from_le_bytes(slice(data, cursor, 4)), cursor + 4)

(* read_i32 without the sign bit *)
read_i32_unsigned(data, cursor) ==
    IF cursor + 4 > Len(data) THEN Err(UnexpectedEof)
    ELSE Read(from_le_bytes(slice(data, cursor, 3) \o <<data[cursor + 4] % 128>>),
              cursor + 4)

read_i32(data, cursor) ==
    IF cursor + 4 > Len(data) THEN Err(UnexpectedEof)
    ELSE Read(signed_from_le_bytes(slice(data, cursor, 4)), cursor + 4)

read_i64(data, cursor) ==
    IF cursor + 8 > Len(data) THEN Err(UnexpectedEof)
    ELSE Read(signed_from_le_bytes(slice(data, cursor, 8)), cursor + 8)

read_f32(data, cursor) ==
    IF cursor + 4 > Len(data) THEN Err(UnexpectedEof)
    ELSE Read(float_from_le_bytes(slice(data, cursor, 4)), cursor + 4)

read_f64(data, cursor) ==
    IF cursor + 8 > Len(data) THEN Err(UnexpectedEof)
    ELSE Read(float_from_le_bytes(slice(data, cursor, 8)), cursor + 8)

read_string(data, cursor) ==
    and_then(read_u32(data, cursor), LAMBDA len :
        IF len.cursor + len.v > Len(data) THEN Err(UnexpectedEof)
        ELSE and_then(from_utf8(slice(data, len.cursor, len.v)), LAMBDA string :
                 Read(string, len.cursor + len.v)))

read_datatype(data, cursor) ==
    and_then(read_u8(data, cursor), LAMBDA dtype_id :
        IF dtype_id.v <= 11 THEN Read(DataTypes[dtype_id.v + 1], dtype_id.cursor)
        ELSE Err(InvalidData("Unknown data type")))

(* A read, and a function of its value when it succeeds *)
map(read, F(_)) == IF read.ok THEN Read(F(read.val.v), read.val.cursor) ELSE read

read_operand(data, cursor) ==
    LET I64(v) == Immediate(Val("I64", v))
        F32(v) == Immediate(Val("F32", v))
        F64(v) == Immediate(Val("F64", v))
        Type(dtype) == [k |-> "Type", dtype |-> dtype]
    IN  and_then(read_u8(data, cursor), LAMBDA operand_type :
            CASE operand_type.v = 0 -> map(read_string(data, operand_type.cursor), Variable)
              [] operand_type.v = 1 ->
                    and_then(read_u8(data, operand_type.cursor), LAMBDA value_type :
                        CASE value_type.v = 0 -> map(read_i32(data, value_type.cursor), I32)
                          [] value_type.v = 1 -> map(read_i64(data, value_type.cursor), I64)
                          [] value_type.v = 2 -> map(read_f32(data, value_type.cursor), F32)
                          [] value_type.v = 3 -> map(read_f64(data, value_type.cursor), F64)
                          [] OTHER -> Err(InvalidData("Unknown value type")))
              [] operand_type.v = 2 -> map(read_string(data, operand_type.cursor), LabelOperand)
              [] operand_type.v = 3 -> map(read_datatype(data, operand_type.cursor), Type)
              [] OTHER -> Err(InvalidData("Unknown operand type")))

(* count reads in a row, each starting where the one before ended: Ok of   *)
(* the values and the last cursor, or the first error.                     *)
RECURSIVE repeat(_, _, _, _, _)
repeat(ReadOne(_, _), data, cursor, count, values) ==
    IF count = 0 THEN Read(values, cursor)
    ELSE and_then(ReadOne(data, cursor), LAMBDA read :
             repeat(ReadOne, data, read.cursor, count - 1, Append(values, read.v)))

(* The arms of decode_opcode that read each field in turn and build the    *)
(* variant: the variant and, per field, what is read.                      *)
DecodeArm(opcode_id) ==
    CASE opcode_id = 61 -> [variant |-> "FuncEnd", fields |-> <<>>]
      [] opcode_id = 0 -> [variant |-> "CreateLocal", fields |-> <<<<"dtype", "datatype">>, <<"name", "string">>>>]
      [] opcode_id = 1 -> [variant |-> "CreateGlobal", fields |-> <<<<"dtype", "datatype">>, <<"name", "string">>>>]
      [] opcode_id = 2 -> [variant |-> "DeleteLocal", fields |-> <<<<"name", "string">>>>]
      [] opcode_id = 3 -> [variant |-> "SetVar", fields |-> <<<<"dest", "string">>, <<"value", "operand">>>>]
      [] opcode_id = 4 -> [variant |-> "CopyVar", fields |-> <<<<"dest", "string">>, <<"source", "string">>>>]
      [] opcode_id = 10 -> [variant |-> "Add", fields |-> <<<<"dest", "string">>, <<"left", "operand">>, <<"right", "operand">>>>]
      [] opcode_id = 11 -> [variant |-> "Sub", fields |-> <<<<"dest", "string">>, <<"left", "operand">>, <<"right", "operand">>>>]
      [] opcode_id = 12 -> [variant |-> "Mul", fields |-> <<<<"dest", "string">>, <<"left", "operand">>, <<"right", "operand">>>>]
      [] opcode_id = 13 -> [variant |-> "Div", fields |-> <<<<"dest", "string">>, <<"left", "operand">>, <<"right", "operand">>>>]
      [] opcode_id = 14 -> [variant |-> "Mod", fields |-> <<<<"dest", "string">>, <<"left", "operand">>, <<"right", "operand">>>>]
      [] opcode_id = 15 -> [variant |-> "Neg", fields |-> <<<<"dest", "string">>, <<"source", "operand">>>>]
      [] opcode_id = 5 -> [variant |-> "Alloc", fields |-> <<<<"dest", "string">>, <<"size", "operand">>>>]
      [] opcode_id = 6 -> [variant |-> "Free", fields |-> <<<<"ptr", "string">>>>]
      [] opcode_id = 7 -> [variant |-> "Load", fields |-> <<<<"dest", "string">>, <<"ptr", "string">>, <<"dtype", "datatype">>>>]
      [] opcode_id = 8 -> [variant |-> "Store", fields |-> <<<<"ptr", "string">>, <<"source", "string">>, <<"dtype", "datatype">>>>]
      [] opcode_id = 9 -> [variant |-> "GetAddr", fields |-> <<<<"dest", "string">>, <<"var", "string">>>>]
      [] opcode_id = 16 -> [variant |-> "And", fields |-> <<<<"dest", "string">>, <<"left", "operand">>, <<"right", "operand">>>>]
      [] opcode_id = 17 -> [variant |-> "Or", fields |-> <<<<"dest", "string">>, <<"left", "operand">>, <<"right", "operand">>>>]
      [] opcode_id = 18 -> [variant |-> "Xor", fields |-> <<<<"dest", "string">>, <<"left", "operand">>, <<"right", "operand">>>>]
      [] opcode_id = 19 -> [variant |-> "Not", fields |-> <<<<"dest", "string">>, <<"source", "operand">>>>]
      [] opcode_id = 20 -> [variant |-> "Shl", fields |-> <<<<"dest", "string">>, <<"left", "operand">>, <<"right", "operand">>>>]
      [] opcode_id = 21 -> [variant |-> "Shr", fields |-> <<<<"dest", "string">>, <<"left", "operand">>, <<"right", "operand">>>>]
      [] opcode_id = 30 -> [variant |-> "Eq", fields |-> <<<<"dest", "string">>, <<"left", "operand">>, <<"right", "operand">>>>]
      [] opcode_id = 31 -> [variant |-> "Ne", fields |-> <<<<"dest", "string">>, <<"left", "operand">>, <<"right", "operand">>>>]
      [] opcode_id = 32 -> [variant |-> "Lt", fields |-> <<<<"dest", "string">>, <<"left", "operand">>, <<"right", "operand">>>>]
      [] opcode_id = 33 -> [variant |-> "Le", fields |-> <<<<"dest", "string">>, <<"left", "operand">>, <<"right", "operand">>>>]
      [] opcode_id = 34 -> [variant |-> "Gt", fields |-> <<<<"dest", "string">>, <<"left", "operand">>, <<"right", "operand">>>>]
      [] opcode_id = 35 -> [variant |-> "Ge", fields |-> <<<<"dest", "string">>, <<"left", "operand">>, <<"right", "operand">>>>]
      [] opcode_id = 50 -> [variant |-> "Label", fields |-> <<<<"name", "string">>>>]
      [] opcode_id = 51 -> [variant |-> "Jmp", fields |-> <<<<"label", "string">>>>]
      [] opcode_id = 52 -> [variant |-> "Jz", fields |-> <<<<"var", "string">>, <<"label", "string">>>>]
      [] opcode_id = 53 -> [variant |-> "Jnz", fields |-> <<<<"var", "string">>, <<"label", "string">>>>]
      [] opcode_id = 60 -> [variant |-> "FuncBegin", fields |-> <<<<"name", "string">>, <<"return_type", "datatype">>>>]
      [] opcode_id = 64 -> [variant |-> "PushArg", fields |-> <<<<"var", "string">>>>]
      [] opcode_id = 65 -> [variant |-> "PopArg", fields |-> <<<<"dest", "string">>>>]
      [] opcode_id = 80 -> [variant |-> "Cast", fields |-> <<<<"dest", "string">>, <<"source", "string">>, <<"target_type", "datatype">>>>]
      [] opcode_id = 90 -> [variant |-> "Sqrt", fields |-> <<<<"dest", "string">>, <<"source", "operand">>>>]
      [] opcode_id = 91 -> [variant |-> "Pow", fields |-> <<<<"dest", "string">>, <<"base", "operand">>, <<"exp", "operand">>>>]
      [] opcode_id = 92 -> [variant |-> "Abs", fields |-> <<<<"dest", "string">>, <<"source", "operand">>>>]
      [] opcode_id = 93 -> [variant |-> "Min", fields |-> <<<<"dest", "string">>, <<"a", "operand">>, <<"b", "operand">>>>]
      [] opcode_id = 94 -> [variant |-> "Max", fields |-> <<<<"dest", "string">>, <<"a", "operand">>, <<"b", "operand">>>>]
      [] opcode_id = 95 -> [variant |-> "Sin", fields |-> <<<<"dest", "string">>, <<"source", "operand">>>>]
      [] opcode_id = 96 -> [variant |-> "Cos", fields |-> <<<<"dest", "string">>, <<"source", "operand">>>>]
      [] opcode_id = 97 -> [variant |-> "Tan", fields |-> <<<<"dest", "string">>, <<"source", "operand">>>>]
      [] opcode_id = 70 -> [variant |-> "Print", fields |-> <<<<"var", "string">>>>]
      [] opcode_id = 72 -> [variant |-> "Input", fields |-> <<<<"dest", "string">>>>]
      [] opcode_id = 71 -> [variant |-> "Exit", fields |-> <<<<"code", "operand">>>>]
      [] OTHER -> [variant |-> None, fields |-> <<>>]

read_field(kind, data, cursor) ==
    CASE kind = "string"   -> read_string(data, cursor)
      [] kind = "operand"  -> read_operand(data, cursor)
      [] kind = "datatype" -> read_datatype(data, cursor)

RECURSIVE read_fields(_, _, _, _)
read_fields(fields, data, cursor, values) ==
    IF Len(values) = Len(fields) THEN Read(values, cursor)
    ELSE and_then(read_field(fields[Len(values) + 1][2], data, cursor), LAMBDA read :
             read_fields(fields, data, read.cursor, Append(values, read.v)))

decode_opcode(data, cursor) ==
    and_then(read_u8(data, cursor), LAMBDA opcode_id :
        CASE opcode_id.v = 62 ->
                and_then(read_u8(data, opcode_id.cursor), LAMBDA has_result :
                and_then(IF has_result.v = 1 THEN read_string(data, has_result.cursor)
                         ELSE Read(None, has_result.cursor), LAMBDA res :
                and_then(read_string(data, res.cursor), LAMBDA func :
                and_then(read_u32(data, func.cursor), LAMBDA arg_count :
                and_then(repeat(read_operand, data, arg_count.cursor, arg_count.v, <<>>),
                         LAMBDA args :
                    Read(Call(res.v, func.v, args.v), args.cursor))))))
          [] opcode_id.v = 63 ->
                and_then(read_u8(data, opcode_id.cursor), LAMBDA has_value :
                and_then(IF has_value.v = 1 THEN read_operand(data, has_value.cursor)
                         ELSE Read(NoOperand, has_value.cursor), LAMBDA value :
                    Read(Return(value.v), value.cursor)))
          [] opcode_id.v \notin {62, 63} ->
                LET arm == DecodeArm(opcode_id.v)
                IN  IF arm.variant = None THEN Err(InvalidData("Unknown opcode ID"))
                    ELSE and_then(read_fields(arm.fields, data, opcode_id.cursor, <<>>),
                                  LAMBDA values :
                             Read([field \in {"op"} \cup {arm.fields[j][1] :
                                                           j \in 1..Len(arm.fields)} |->
                                      IF field = "op" THEN arm.variant
                                      ELSE values.v[CHOOSE j \in 1..Len(arm.fields) :
                                                       arm.fields[j][1] = field]],
                                  values.cursor)))

read_global(data, cursor) ==
    and_then(read_string(data, cursor), LAMBDA name :
    and_then(read_datatype(data, name.cursor), LAMBDA dtype :
        Read(Global(name.v, dtype.v), dtype.cursor)))

decode_globals(data, cursor) ==
    and_then(read_u32(data, cursor), LAMBDA count :
        repeat(read_global, data, count.cursor, count.v, <<>>))

read_function(data, cursor) ==
    and_then(read_string(data, cursor), LAMBDA name :
    and_then(read_datatype(data, name.cursor), LAMBDA return_type :
    and_then(read_u32(data, return_type.cursor), LAMBDA start_ip :
    and_then(read_u32(data, start_ip.cursor), LAMBDA end_ip :
        Read([name |-> name.v, return_type |-> return_type.v,
              start_ip |-> start_ip.v, end_ip |-> end_ip.v],
             end_ip.cursor)))))

(* HashMap::insert of each <<key, value>> of a sequence in turn *)
RECURSIVE collected(_)
collected(entries) ==
    IF entries = <<>> THEN EmptyMap
    ELSE LET entry == entries[Len(entries)]
         IN  insert(collected(SubSeq(entries, 1, Len(entries) - 1)), entry[1], entry[2])

decode_functions(data, cursor) ==
    and_then(read_u32(data, cursor), LAMBDA count :
    and_then(repeat(read_function, data, count.cursor, count.v, <<>>), LAMBDA functions :
        Read(collected([j \in 1..Len(functions.v) |->
                           <<functions.v[j].name, functions.v[j]>>]),
             functions.cursor)))

read_label(data, cursor) ==
    and_then(read_string(data, cursor), LAMBDA name :
    and_then(read_u32(data, name.cursor), LAMBDA addr :
        Read([name |-> name.v, addr |-> addr.v], addr.cursor)))

decode_labels(data, cursor) ==
    and_then(read_u32(data, cursor), LAMBDA count :
    and_then(repeat(read_label, data, count.cursor, count.v, <<>>), LAMBDA labels :
        Read(collected([j \in 1..Len(labels.v) |-> <<labels.v[j].name, labels.v[j].addr>>]),
             labels.cursor)))

decode_instructions(data, cursor) ==
    and_then(read_u32(data, cursor), LAMBDA count :
        repeat(decode_opcode, data, count.cursor, count.v, <<>>))

(* decode, after the header: the four sections in their order, each read  *)
(* from where the one before it ended                                      *)
Sections == <<"globals", "functions", "labels", "instructions">>

RECURSIVE decode_sections(_, _, _, _)
decode_sections(data, cursor, section, prog) ==
    IF section > Len(Sections) THEN Ok(prog)
    ELSE and_then(CASE section = 1 -> decode_globals(data, cursor)
                    [] section = 2 -> decode_functions(data, cursor)
                    [] section = 3 -> decode_labels(data, cursor)
                    [] section = 4 -> decode_instructions(data, cursor),
                  LAMBDA read :
                      decode_sections(data, read.cursor, section + 1,
                                      [prog EXCEPT ![Sections[section]] = read.v]))

decode(data) ==
    and_then(read_u32(data, 0), LAMBDA magic :
        IF magic.v # MAGIC THEN Err(InvalidData("Invalid magic number"))
        ELSE and_then(read_u32(data, magic.cursor), LAMBDA version :
            IF version.v # VERSION THEN Err(InvalidData("Unsupported version"))
            ELSE decode_sections(data, version.cursor, 1, Program_new)))

-----------------------------------------------------------------------------
(* Writing the assembled image to a binary image and reading it back. *)

CodecSlots == 1

DecodeSlots == 1

MaxEncodings == 2

NoInput == [kind |-> "none", n |-> 0]

(* encode(&program): the function and label tables are HashMaps with       *)
(* RandomState, iterated in whichever order the map holds them.            *)
Encode ==
    /\ tool.pc = "assembled"
    /\ Len(encoded) < tool.encodings
    /\ decoded.input = NoInput
    /\ \E function_order \in Orders(DOMAIN tool.result.val.functions),
          label_order \in Orders(DOMAIN tool.result.val.labels) :
          encoded' = Append(encoded,
                            [result |-> encode(tool.result.val, function_order, label_order),
                             function_order |-> function_order,
                             label_order |-> label_order])
    /\ UNCHANGED <<vmvars, ast, assembler, tool, decoded, listing, loader, lexer>>

(* The buffer encode returned last *)
buffer == encoded[Len(encoded)].result.val

(* decode(&data) of the buffer written last *)
Decode ==
    /\ encoded # <<>>
    /\ encoded[Len(encoded)].result.ok
    /\ decoded.input = NoInput
    /\ decoded' = [input |-> [kind |-> "whole", n |-> Len(buffer)],
                   result |-> decode(buffer)]
    /\ UNCHANGED <<vmvars, ast, assembler, tool, encoded, listing, loader, lexer>>

(* A buffer with the byte at position n (from 1) replaced *)
patched(data, n, byte) == [data EXCEPT ![n] = byte]

(* What a damaged copy of the buffer holds: its first n bytes, or all of   *)
(* it with byte n of the magic or of the version changed.                  *)
Damaged(data, input) ==
    CASE input.kind = "prefix"  -> SubSeq(data, 1, input.n)
      [] input.kind = "magic"   -> patched(data, input.n, (data[input.n] + 1) % 128)
      [] input.kind = "version" -> patched(data, 4 + input.n, (data[4 + input.n] + 1) % 128)

DamagedInputs(data) ==
    {[kind |-> "prefix", n |-> n] : n \in 0..(Len(data) - 1)}
    \cup {[kind |-> k, n |-> n] : k \in {"magic", "version"}, n \in 1..4}

(* decode(&data) of a damaged copy of the buffer written last *)
DecodeDamaged ==
    /\ encoded # <<>>
    /\ encoded[Len(encoded)].result.ok
    /\ decoded.input = NoInput
    /\ \E input \in DamagedInputs(buffer) :
          decoded' = [input |-> input, result |-> decode(Damaged(buffer, input))]
    /\ UNCHANGED <<vmvars, ast, assembler, tool, encoded, listing, loader, lexer>>

NextCodec == AssembleProgram \/ AssembleStatement \/ AssembleReturn \/ Encode \/ Decode

NextDecode ==
    AssembleProgram \/ AssembleStatement \/ AssembleReturn \/ Encode \/ Decode \/ DecodeDamaged

(* Two functions, the first with CodecSlots statements *)
InitCodec ==
    Assembling(<<"a", "func_begin">> \o [j \in 1..CodecSlots |-> "codec"]
               \o <<"func_end", "f", "func_begin", "func_end">>, 1)

SpecCodec == InitCodec /\ [][NextCodec]_vars

(* One function with DecodeSlots statements *)
InitDecode ==
    Assembling(<<"a", "func_begin">> \o [j \in 1..DecodeSlots |-> "decode"]
               \o <<"func_end">>, 1)

SpecDecode == InitDecode /\ [][NextDecode]_vars

(* Two functions and a third label, encoded up to MaxEncodings times *)
InitEncode ==
    Assembling(<<"a", "func_begin", "func_end", "f", "func_begin", "label", "func_end">>,
               MaxEncodings)

SpecEncode == InitEncode /\ [][NextCodec]_vars

(* C11: every image the assembler produces is encoded without error, and   *)
(* decoding the buffer gives a program with the same instructions, the     *)
(* same globals in order, the same function table and the same label       *)
(* table, whatever order the tables were written in.                       *)
C11_BinaryRoundTrip ==
    /\ \A j \in 1..Len(encoded) : encoded[j].result.ok
    /\ decoded.input.kind = "whole" =>
          /\ decoded.result.ok
          /\ SameImage(decoded.result, tool.result)

(* An image with two functions, a call with arguments and a negative       *)
(* immediate has been written and read back.                               *)
C11_Witness ==
    /\ decoded.input.kind = "whole"
    /\ decoded.result.ok
    /\ Cardinality(DOMAIN decoded.result.val.functions) = 2
    /\ \E i \in At({"Call"}) :
          /\ Len(image.instructions[i + 1].args) > 1
          /\ decoded.result.val.instructions[i + 1].args[1] = I32(3)
          /\ decoded.result.val.instructions[i + 1].args[2] = Immediate(Val("F32", 1))

(* C12 (as claimed): encoding the same image twice gives the same bytes.   *)
C12_Claimed ==
    \A i, j \in 1..Len(encoded) : encoded[i].result = encoded[j].result

(* C12: the encoding made last and any encoding of the same image made     *)
(* before it (so any two encodings) are the same bytes exactly when        *)
(* the function table and the label table were iterated in the same        *)
(* orders; in every case they have the same length and decode to the same  *)
(* program.                                                                *)
C12_EncoderDeterminism ==
    \A i \in 1..Len(encoded) : \A j \in {Len(encoded)} :
       /\ encoded[i].result.ok /\ encoded[j].result.ok
       /\ encoded[i].result.val = encoded[j].result.val
             <=> /\ encoded[i].function_order = encoded[j].function_order
                 /\ encoded[i].label_order = encoded[j].label_order
       /\ Len(encoded[i].result.val) = Len(encoded[j].result.val)
       /\ decode(encoded[i].result.val) = decode(encoded[j].result.val)

(* The image, with its two functions and three labels, has been encoded    *)
(* twice, with the labels in two orders.                                   *)
C12_Witness ==
    /\ Len(encoded) >= 2
    /\ Cardinality(DOMAIN image.functions) = 2
    /\ Cardinality(DOMAIN image.labels) = 3
    /\ encoded[1].function_order = encoded[2].function_order
    /\ encoded[1].label_order # encoded[2].label_order
    /\ encoded[1].result.val # encoded[2].result.val

(* C13: decode of a buffer whose magic is not 0x56424300, or whose version *)
(* is not 1, fails; decode of a strict prefix of a valid encoding fails    *)
(* with UnexpectedEof.                                                     *)
C13_DecoderValidation ==
    /\ decoded.input.kind \in {"magic", "version"} =>
          /\ ~decoded.result.ok
          /\ decoded.result.err.kind = "InvalidData"
    /\ decoded.input.kind = "prefix" =>
          /\ ~decoded.result.ok
          /\ decoded.result.err = UnexpectedEof

(* decode was given a valid encoding without its last byte, and refused it *)
C13_Witness ==
    /\ encoded # <<>>
    /\ decoded.input = [kind |-> "prefix", n |-> Len(buffer) - 1]
    /\ decode(buffer).ok
    /\ ~decoded.result.ok

-----------------------------------------------------------------------------
(* Text (src/src/asm/disassembler.rs, lexer.rs, parser.rs).  A text is a   *)
(* sequence of pieces: a run of alphanumeric characters, a number literal, *)
(* a run of blanks " ", or one of the characters "\n", ".", ":", ",".      *)

(* The decimal literals of the integers and of the floats (in halves) of   *)
(* the sources: to_string one way, str::parse the other.                   *)
IntegerLiterals ==
    {<<"-1", -1>>, <<"0", 0>>, <<"1", 1>>, <<"2", 2>>, <<"3", 3>>, <<"300", 300>>}

FloatLiterals ==
    {<<"-1.0", -2>>, <<"-0.5", -1>>, <<"0.0", 0>>, <<"0.5", 1>>, <<"1.0", 2>>,
     <<"1.5", 3>>, <<"2.0", 4>>, <<"2.5", 5>>}

to_string(literals, v) == (CHOOSE l \in literals : l[2] = v)[1]

format_datatype(dtype) == CHOOSE t \in DOMAIN TypeKeywords : TypeKeywords[t] = dtype

(* An integral float prints with ".0", as its literal here does. *)
format_value(value) ==
    IF value.t \in {"F32", "F64"} THEN to_string(FloatLiterals, value.v)
    ELSE to_string(IntegerLiterals, value.v)

format_operand(operand) ==
    CASE operand.k = "Variable"  -> chars(operand.name)
      [] operand.k = "Immediate" -> <<format_value(operand.val)>>
      [] operand.k = "Label"     -> chars(operand.name)
      [] operand.k = "Type"      -> <<format_datatype(operand.dtype)>>

(* The pieces joined by ", " *)
RECURSIVE join(_)
join(texts) ==
    IF texts = <<>> THEN <<>>
    ELSE IF Len(texts) = 1 THEN texts[1]
    ELSE texts[1] \o <<",", " ">> \o join(Tail(texts))

(* The arms of disassemble_instruction that print the mnemonic and the     *)
(* fields separated by commas: the mnemonic and, per field, how it prints. *)
DisassembleArm(variant) ==
    CASE variant = "DeleteLocal" -> [mnemonic |-> "delete_local", fields |-> <<<<"name", "string">>>>]
      [] variant = "SetVar" -> [mnemonic |-> "set", fields |-> <<<<"dest", "string">>, <<"value", "operand">>>>]
      [] variant = "CopyVar" -> [mnemonic |-> "copy", fields |-> <<<<"dest", "string">>, <<"source", "string">>>>]
      [] variant = "Add" -> [mnemonic |-> "add", fields |-> <<<<"dest", "string">>, <<"left", "operand">>, <<"right", "operand">>>>]
      [] variant = "Sub" -> [mnemonic |-> "sub", fields |-> <<<<"dest", "string">>, <<"left", "operand">>, <<"right", "operand">>>>]
      [] variant = "Mul" -> [mnemonic |-> "mul", fields |-> <<<<"dest", "string">>, <<"left", "operand">>, <<"right", "operand">>>>]
      [] variant = "Div" -> [mnemonic |-> "div", fields |-> <<<<"dest", "string">>, <<"left", "operand">>, <<"right", "operand">>>>]
      [] variant = "Mod" -> [mnemonic |-> "mod", fields |-> <<<<"dest", "string">>, <<"left", "operand">>, <<"right", "operand">>>>]
      [] variant = "Neg" -> [mnemonic |-> "neg", fields |-> <<<<"dest", "string">>, <<"source", "operand">>>>]
      [] variant = "And" -> [mnemonic |-> "and", fields |-> <<<<"dest", "string">>, <<"left", "operand">>, <<"right", "operand">>>>]
      [] variant = "Or" -> [mnemonic |-> "or", fields |-> <<<<"dest", "string">>, <<"left", "operand">>, <<"right", "operand">>>>]
      [] variant = "Xor" -> [mnemonic |-> "xor", fields |-> <<<<"dest", "string">>, <<"left", "operand">>, <<"right", "operand">>>>]
      [] variant = "Not" -> [mnemonic |-> "not", fields |-> <<<<"dest", "string">>, <<"source", "operand">>>>]
      [] variant = "Shl" -> [mnemonic |-> "shl", fields |-> <<<<"dest", "string">>, <<"left", "operand">>, <<"right", "operand">>>>]
      [] variant = "Shr" -> [mnemonic |-> "shr", fields |-> <<<<"dest", "string">>, <<"left", "operand">>, <<"right", "operand">>>>]
      [] variant = "Eq" -> [mnemonic |-> "eq", fields |-> <<<<"dest", "string">>, <<"left", "operand">>, <<"right", "operand">>>>]
      [] variant = "Ne" -> [mnemonic |-> "ne", fields |-> <<<<"dest", "string">>, <<"left", "operand">>, <<"right", "operand">>>>]
      [] variant = "Lt" -> [mnemonic |-> "lt", fields |-> <<<<"dest", "string">>, <<"left", "operand">>, <<"right", "operand">>>>]
      [] variant = "Le" -> [mnemonic |-> "le", fields |-> <<<<"dest", "string">>, <<"left", "operand">>, <<"right", "operand">>>>]
      [] variant = "Gt" -> [mnemonic |-> "gt", fields |-> <<<<"dest", "string">>, <<"left", "operand">>, <<"right", "operand">>>>]
      [] variant = "Ge" -> [mnemonic |-> "ge", fields |-> <<<<"dest", "string">>, <<"left", "operand">>, <<"right", "operand">>>>]
      [] variant = "Jmp" -> [mnemonic |-> "jmp", fields |-> <<<<"label", "string">>>>]
      [] variant = "Jz" -> [mnemonic |-> "jz", fields |-> <<<<"var", "string">>, <<"label", "string">>>>]
      [] variant = "Jnz" -> [mnemonic |-> "jnz", fields |-> <<<<"var", "string">>, <<"label", "string">>>>]
      [] variant = "PushArg" -> [mnemonic |-> "push_arg", fields |-> <<<<"var", "string">>>>]
      [] variant = "PopArg" -> [mnemonic |-> "pop_arg", fields |-> <<<<"dest", "string">>>>]
      [] variant = "Alloc" -> [mnemonic |-> "alloc", fields |-> <<<<"dest", "string">>, <<"size", "operand">>>>]
      [] variant = "Free" -> [mnemonic |-> "free", fields |-> <<<<"ptr", "string">>>>]
      [] variant = "Load" -> [mnemonic |-> "load", fields |-> <<<<"dest", "string">>, <<"ptr", "string">>, <<"dtype", "datatype">>>>]
      [] variant = "Store" -> [mnemonic |-> "store", fields |-> <<<<"ptr", "string">>, <<"source", "string">>, <<"dtype", "datatype">>>>]
      [] variant = "GetAddr" -> [mnemonic |-> "get_addr", fields |-> <<<<"dest", "string">>, <<"var", "string">>>>]
      [] variant = "Cast" -> [mnemonic |-> "cast", fields |-> <<<<"dest", "string">>, <<"source", "string">>, <<"target_type", "datatype">>>>]
      [] variant = "Sqrt" -> [mnemonic |-> "sqrt", fields |-> <<<<"dest", "string">>, <<"source", "operand">>>>]
      [] variant = "Pow" -> [mnemonic |-> "pow", fields |-> <<<<"dest", "string">>, <<"base", "operand">>, <<"exp", "operand">>>>]
      [] variant = "Abs" -> [mnemonic |-> "abs", fields |-> <<<<"dest", "string">>, <<"source", "operand">>>>]
      [] variant = "Min" -> [mnemonic |-> "min", fields |-> <<<<"dest", "string">>, <<"a", "operand">>, <<"b", "operand">>>>]
      [] variant = "Max" -> [mnemonic |-> "max", fields |-> <<<<"dest", "string">>, <<"a", "operand">>, <<"b", "operand">>>>]
      [] variant = "Sin" -> [mnemonic |-> "sin", fields |-> <<<<"dest", "string">>, <<"source", "operand">>>>]
      [] variant = "Cos" -> [mnemonic |-> "cos", fields |-> <<<<"dest", "string">>, <<"source", "operand">>>>]
      [] variant = "Tan" -> [mnemonic |-> "tan", fields |-> <<<<"dest", "string">>, <<"source", "operand">>>>]
      [] variant = "Print" -> [mnemonic |-> "print", fields |-> <<<<"var", "string">>>>]
      [] variant = "Input" -> [mnemonic |-> "input", fields |-> <<<<"dest", "string">>>>]
      [] variant = "Exit" -> [mnemonic |-> "exit", fields |-> <<<<"code", "operand">>>>]

format_field(kind, value) ==
    CASE kind = "string"   -> chars(value)
      [] kind = "operand"  -> format_operand(value)
      [] kind = "datatype" -> <<format_datatype(value)>>

(* disassemble_instruction: the line of an instruction *)
disassemble_instruction(instr) ==
    CASE instr.op = "Label" ->
            IF starts_with(instr.name, ".") THEN chars(instr.name) \o <<":">>
            ELSE <<"\n">> \o chars(instr.name) \o <<":">>
      [] instr.op = "FuncBegin" -> <<" ", "func_begin", " ", format_datatype(instr.return_type)>>
      [] instr.op = "FuncEnd" -> <<" ", "func_end">>
      [] instr.op = "CreateLocal" ->
            <<" ", "local", " ">> \o chars(instr.name) \o <<":", " ", format_datatype(instr.dtype)>>
      [] instr.op = "CreateGlobal" ->
            <<" ", "global", " ">> \o chars(instr.name) \o <<":", " ", format_datatype(instr.dtype)>>
      [] instr.op = "Call" ->
            <<" ", "call", " ">>
            \o join(<<IF instr.result # None THEN chars(instr.result) ELSE <<"_">>,
                      chars(instr.func)>>
                    \o [j \in 1..Len(instr.args) |-> format_operand(instr.args[j])])
      [] instr.op = "Return" ->
            IF instr.value # NoOperand THEN <<" ", "ret", " ">> \o format_operand(instr.value)
            ELSE <<" ", "ret">>
      [] OTHER ->
            LET arm == DisassembleArm(instr.op)
            IN  <<" ", arm.mnemonic, " ">>
                \o join([j \in 1..Len(arm.fields) |->
                            format_field(arm.fields[j][2], instr[arm.fields[j][1]])])

disassemble_data_section(prog) ==
    IF prog.globals = <<>> THEN <<>>
    ELSE <<"section", " ", ".", "data", "\n">>
         \o concat([j \in 1..Len(prog.globals) |->
                       <<" ">> \o chars(prog.globals[j].name)
                       \o <<":", " ", format_datatype(prog.globals[j].dtype), "\n">>])

disassemble_text_section(prog) ==
    <<"section", " ", ".", "text", "\n">>
    \o concat([j \in 1..Len(prog.instructions) |->
                  disassemble_instruction(prog.instructions[j]) \o <<"\n">>])

disassemble(prog) ==
    disassemble_data_section(prog) \o <<"\n">> \o disassemble_text_section(prog)

-----------------------------------------------------------------------------
(* lexer.rs, on the characters a listing holds *)

Token(t, v) == [t |-> t, v |-> v]

Keywords ==
    [section |-> "Section", data |-> "Data", text |-> "Text",
     func_begin |-> "FuncBegin", func_end |-> "FuncEnd", local |-> "Local",
     include |-> "Include", define |-> "Define"]

Punctuation == {" ", "\n", ".", ":", ","}

IsNumber(piece) == \E l \in IntegerLiterals \cup FloatLiterals : l[1] = piece

IsWord(piece) == piece \notin Punctuation /\ ~IsNumber(piece)

read_number(piece) ==
    IF \E l \in FloatLiterals : l[1] = piece
    THEN Token("Float", (CHOOSE l \in FloatLiterals : l[1] = piece)[2])
    ELSE Token("Integer", (CHOOSE l \in IntegerLiterals : l[1] = piece)[2])

read_identifier_or_keyword(piece) ==
    IF piece \in DOMAIN Keywords THEN Token(Keywords[piece], piece)
    ELSE IF piece \in DOMAIN TypeKeywords THEN Token("Type", TypeKeywords[piece])
    ELSE Token("Identifier", piece)

(* Lexer::tokenize from a position of the input: blanks are skipped, a     *)
(* newline is kept unless it is first or follows a newline, a dot takes    *)
(* the run after it as a local label.                                      *)
RECURSIVE tokenize_from(_, _, _)
tokenize_from(input, position, tokens) ==
    IF position > Len(input) THEN Append(tokens, Token("Eof", ""))
    ELSE LET piece == input[position]
         IN  CASE piece = " " -> tokenize_from(input, position + 1, tokens)
               [] piece = "\n" ->
                     tokenize_from(input, position + 1,
                                   IF tokens # <<>> /\ tokens[Len(tokens)].t # "Newline"
                                   THEN Append(tokens, Token("Newline", ""))
                                   ELSE tokens)
               [] piece = ":" -> tokenize_from(input, position + 1, Append(tokens, Token("Colon", "")))
               [] piece = "," -> tokenize_from(input, position + 1, Append(tokens, Token("Comma", "")))
               [] piece = "." ->
                     IF position < Len(input) /\ IsWord(input[position + 1])
                     THEN tokenize_from(input, position + 2,
                                        Append(tokens, Token("Label", "." \o input[position + 1])))
                     ELSE tokenize_from(input, position + 1, Append(tokens, Token("Label", ".")))
               [] IsNumber(piece) ->
                     tokenize_from(input, position + 1, Append(tokens, read_number(piece)))
               [] OTHER ->
                     tokenize_from(input, position + 1,
                                   Append(tokens, read_identifier_or_keyword(piece)))

tokenize(input) == tokenize_from(input, 1, <<>>)

-----------------------------------------------------------------------------
(* parser.rs: position is the index (from 1) of the current token; a       *)
(* parsing step returns the position after it and what it parsed.          *)

Parsed(position, v) == Ok([position |-> position, v |-> v])

current(tokens, position) ==
    IF position > Len(tokens) THEN Token("Eof", "") ELSE tokens[position]

is_at_end(tokens, position) ==
    position > Len(tokens) \/ current(tokens, position).t = "Eof"

advance(tokens, position) == IF position <= Len(tokens) THEN position + 1 ELSE position

RECURSIVE skip_newlines(_, _)
skip_newlines(tokens, position) ==
    IF current(tokens, position).t = "Newline"
    THEN skip_newlines(tokens, advance(tokens, position))
    ELSE position

(* expect(token), expect_identifier, expect_type: the token wanted is      *)
(* consumed and its value returned.                                        *)
expect(tokens, position, t) ==
    IF ~is_at_end(tokens, position) /\ current(tokens, position).t = t
    THEN Parsed(advance(tokens, position), current(tokens, position).v)
    ELSE Err(ParseError("Expected " \o t))

expect_newline(tokens, position) ==
    IF current(tokens, position).t \notin {"Newline", "Eof"}
    THEN Err(ParseError("Expected newline"))
    ELSE IF current(tokens, position).t = "Newline"
    THEN Parsed(advance(tokens, position), "")
    ELSE Parsed(position, "")

parse_immediate(tokens, position) ==
    LET token == current(tokens, position)
    IN  CASE token.t = "Integer" -> Parsed(advance(tokens, position), Integer(token.v))
          [] token.t = "Float"   -> Parsed(advance(tokens, position), Float(token.v))
          [] OTHER -> Err(ParseError("Expected immediate value"))

parse_operand(tokens, position) ==
    LET token == current(tokens, position)
    IN  CASE token.t = "Identifier" -> Parsed(advance(tokens, position), AsmVariable(token.v))
          [] token.t = "Label" -> Parsed(advance(tokens, position), AsmLabel(token.v))
          [] token.t \in {"Integer", "Float"} ->
                LET imm == parse_immediate(tokens, position)
                IN  Parsed(imm.val.position, AsmImmediate(imm.val.v))
          [] token.t = "Type" ->
                Parsed(advance(tokens, position), AsmVariable(format_datatype(token.v)))
          [] OTHER -> Err(ParseError("Expected operand"))

(* The operands of an instruction: one, and another after each comma *)
RECURSIVE parse_operands(_, _, _)
parse_operands(tokens, position, operands) ==
    LET operand == parse_operand(tokens, position)
    IN  IF ~operand.ok THEN operand
        ELSE IF current(tokens, operand.val.position).t = "Comma"
        THEN parse_operands(tokens, advance(tokens, operand.val.position),
                            Append(operands, operand.val.v))
        ELSE Parsed(operand.val.position, Append(operands, operand.val.v))

parse_instruction(tokens, position) ==
    LET token == current(tokens, position)
        opcode == CASE token.t = "Identifier" -> token.v
                    [] token.t = "FuncBegin"  -> "func_begin"
                    [] token.t = "FuncEnd"    -> "func_end"
                    [] OTHER -> None
        next == advance(tokens, position)
        operands == IF current(tokens, next).t \notin {"Newline", "Eof"}
                    THEN parse_operands(tokens, next, <<>>)
                    ELSE Parsed(next, <<>>)
    IN  IF opcode = None THEN Err(ParseError("Expected instruction opcode"))
        ELSE IF ~operands.ok THEN operands
        ELSE Parsed(operands.val.position, StatementInstruction(opcode, operands.val.v))

(* One statement of the text section, at a token that begins one *)
parse_statement(tokens, position) ==
    LET token == current(tokens, position)
    IN  CASE token.t \in {"Identifier", "FuncBegin", "FuncEnd"} ->
                IF /\ position + 1 <= Len(tokens)
                   /\ tokens[position + 1].t = "Colon"
                   /\ token.t = "Identifier"
                THEN Parsed(position + 2, StatementLabel(token.v))
                ELSE parse_instruction(tokens, position)
          [] token.t = "Label" ->
                LET colon == expect(tokens, advance(tokens, position), "Colon")
                IN  IF ~colon.ok THEN colon
                    ELSE Parsed(colon.val.position, StatementLabel(token.v))
          [] token.t = "Local" ->
                LET name == current(tokens, advance(tokens, position))
                    colon == expect(tokens, position + 2, "Colon")
                    dtype == expect(tokens, colon.val.position, "Type")
                IN  IF name.t = "Type"
                    THEN Err(ParseError("Variable name cannot be a type keyword"))
                    ELSE IF name.t # "Identifier" THEN Err(ParseError("Expected variable name"))
                    ELSE IF ~colon.ok THEN colon
                    ELSE IF ~dtype.ok THEN dtype
                    ELSE Parsed(dtype.val.position, StatementLocalDecl(name.v, dtype.val.v))
          [] OTHER -> Err(ParseError("Unexpected token in text section"))

RECURSIVE parse_text_section(_, _, _)
parse_text_section(tokens, position, source) ==
    IF is_at_end(tokens, position) \/ current(tokens, position).t = "Section"
    THEN Parsed(position, source)
    ELSE IF current(tokens, position).t = "Newline"
    THEN parse_text_section(tokens, advance(tokens, position), source)
    ELSE LET statement == parse_statement(tokens, position)
         IN  IF ~statement.ok THEN statement
             ELSE parse_text_section(tokens, skip_newlines(tokens, statement.val.position),
                                     [source EXCEPT !.text_section =
                                                       Append(@, statement.val.v)])

(* One declaration of the data section; no listing holds a string literal, *)
(* so "str" is followed by none.                                           *)
parse_declaration(tokens, position) ==
    LET name == expect(tokens, position, "Identifier")
        colon == expect(tokens, name.val.position, "Colon")
        dtype == expect(tokens, colon.val.position, "Type")
        value == IF current(tokens, dtype.val.position).t = "Equals"
                 THEN parse_immediate(tokens, advance(tokens, dtype.val.position))
                 ELSE Parsed(dtype.val.position, NoValue)
    IN  IF ~name.ok THEN name
        ELSE IF ~colon.ok THEN colon
        ELSE IF current(tokens, colon.val.position) = Token("Identifier", "str")
        THEN Err(ParseError("Expected string literal after 'str'"))
        ELSE IF ~dtype.ok THEN dtype
        ELSE IF ~value.ok THEN value
        ELSE Parsed(value.val.position, DataDeclaration(name.val.v, dtype.val.v, value.val.v))

RECURSIVE parse_data_section(_, _, _)
parse_data_section(tokens, position, source) ==
    IF is_at_end(tokens, position) \/ current(tokens, position).t = "Section"
    THEN Parsed(position, source)
    ELSE IF current(tokens, position).t = "Newline"
    THEN parse_data_section(tokens, advance(tokens, position), source)
    ELSE LET declaration == parse_declaration(tokens, position)
         IN  IF ~declaration.ok THEN declaration
             ELSE parse_data_section(tokens, skip_newlines(tokens, declaration.val.position),
                                     [source EXCEPT !.data_section =
                                                       Append(@, declaration.val.v)])

parse_section(tokens, position, source) ==
    LET name == current(tokens, advance(tokens, position))
        newline == expect_newline(tokens, position + 2)
        from == skip_newlines(tokens, newline.val.position)
    IN  IF name.t \notin {"Identifier", "Label"} THEN Err(ParseError("Expected section name"))
        ELSE IF ~newline.ok THEN newline
        ELSE CASE name.v = ".data" -> parse_data_section(tokens, from, source)
               [] name.v = ".text" -> parse_text_section(tokens, from, source)
               [] OTHER -> Err(ParseError("Unknown section: " \o name.v))

parse_define(tokens, position, source) ==
    LET name == expect(tokens, advance(tokens, position), "Identifier")
        value == parse_immediate(tokens, name.val.position)
        newline == expect_newline(tokens, value.val.position)
    IN  IF ~name.ok THEN name
        ELSE IF ~value.ok
        THEN Err(ParseError("Expected integer, float, or string after define name"))
        ELSE IF ~newline.ok THEN newline
        ELSE Parsed(newline.val.position,
                    [source EXCEPT !.defines = Append(@, Define(name.val.v, value.val.v))])

(* No listing holds a string literal, so include is followed by none. *)
parse_include(tokens, position, source) ==
    Err(ParseError("Expected string path after 'include'"))

AsmProgram_new ==
    [defines |-> <<>>, data_section |-> <<>>, text_section |-> <<>>, includes |-> <<>>]

RECURSIVE parse_from(_, _, _)
parse_from(tokens, position, source) ==
    IF is_at_end(tokens, position) THEN Ok(source)
    ELSE LET token == current(tokens, position)
             item == CASE token.t = "Define"  -> parse_define(tokens, position, source)
                       [] token.t = "Include" -> parse_include(tokens, position, source)
                       [] token.t = "Section" -> parse_section(tokens, position, source)
                       [] OTHER ->
                            Err(ParseError("Expected 'define', 'include', or 'section'"))
         IN  IF ~item.ok THEN item
             ELSE parse_from(tokens, skip_newlines(tokens, item.val.position), item.val.v)

parse(tokens) == parse_from(tokens, skip_newlines(tokens, 1), AsmProgram_new)

-----------------------------------------------------------------------------
(* An assembled image is disassembled, and the listing assembled again.    *)

TextSlots == 2

Disassemble ==
    /\ tool.pc = "assembled"
    /\ listing.pc = "idle"
    /\ listing' = [pc |-> "disassembled", text |-> disassemble(image)]
    /\ UNCHANGED <<vmvars, ast, assembler, tool, codecvars, loader, lexer>>

(* assemble of the listing: the lexer and the parser *)
Reparse ==
    /\ listing.pc = "disassembled"
    /\ listing' = [pc |-> "parsed", text |-> listing.text,
                   parsed |-> parse(tokenize(listing.text))]
    /\ UNCHANGED <<vmvars, ast, assembler, tool, codecvars, loader, lexer>>

(* assemble of the listing: the parse error returned, or assemble_program  *)
(* on what was parsed                                                      *)
Reassemble ==
    /\ listing.pc = "parsed"
    /\ listing' = [pc |-> "reassembled", text |-> listing.text,
                   result |-> IF listing.parsed.ok
                              THEN Assembler_assemble_program(listing.parsed.val)
                              ELSE listing.parsed]
    /\ UNCHANGED <<vmvars, ast, assembler, tool, codecvars, loader, lexer>>

NextText ==
    \/ AssembleProgram \/ AssembleStatement \/ AssembleReturn
    \/ Disassemble \/ Reparse \/ Reassemble

(* One function with TextSlots statements *)
InitText ==
    Assembling(<<"f", "func_begin">> \o [j \in 1..TextSlots |-> "any"]
               \o <<"func_end">>, 0)

SpecText == InitText /\ [][NextText]_vars

(* C14: for every source that assembles, the listing disassemble gives of  *)
(* the image assembles, and to an image with the same instruction sequence *)
(* and the same label table.                                               *)
C14_Claimed ==
    listing.pc = "reassembled" =>
        /\ listing.result.ok
        /\ listing.result.val.instructions = image.instructions
        /\ listing.result.val.labels = image.labels

-----------------------------------------------------------------------------
(* Includes (src/src/asm/assembler.rs: assemble, parse_with_includes,      *)
(* resolve_and_parse_include).  A text is kept by what the lexer and the   *)
(* parser make of it: an error, or the paths of its include statements.    *)

MaxIncludes == 2

MaxDepth == 4

Root == "a.vasm"

DiskFiles == {"a.vasm", "b.vasm"}

(* get_stdlib answers to this name; the embedded text is not known here    *)
(* and is drawn like the others.                                           *)
StdlibNames == {"prelude"}

IncludePaths == DiskFiles \cup StdlibNames

Missing == [k |-> "missing", includes |-> <<>>]

Malformed == [k |-> "malformed", includes |-> <<>>]

Text(includes) == [k |-> "text", includes |-> includes]

Texts ==
    {Malformed} \cup {Text(includes) : includes \in
                         UNION {[1..n -> IncludePaths] : n \in 0..MaxIncludes}}

(* What the disk and the standard library hold: the root is there. *)
FileSystems ==
    {files \in [IncludePaths -> Texts \cup {Missing}] :
        /\ files[Root] # Missing
        /\ \A name \in StdlibNames : files[name] # Missing}

get_stdlib(files, path) == IF path \in StdlibNames THEN files[path] ELSE Missing

(* fs::read_to_string of a path joined to the base path *)
read_to_string(files, full_path) ==
    IF full_path \in DiskFiles /\ files[full_path] # Missing
    THEN Ok(files[full_path])
    ELSE Err(ParseError("Failed to read include file '" \o full_path \o "'"))

(* PathBuf::canonicalize, or the name as it is when that fails: the        *)
(* absolute path of a file that is on the disk.                            *)
canonicalize(files, filename) ==
    IF filename \in DiskFiles /\ files[filename] # Missing
    THEN "/" \o filename
    ELSE filename

(* base_path.join(path): every file is in the directory of the root *)
path_join(base_path, path) == base_path \o path

never_contains(included_files, canonical_path) == FALSE

contains(included_files, canonical_path) == canonical_path \in included_files

circular_include(filename) == ParseError("Circular include detected: " \o filename)

(* assemble(source, filename) is called on the root: the set of included   *)
(* files is empty and parse_with_includes is about to run.                 *)
Loading(files) ==
    [pc |-> "call", files |-> files, base_path |-> "", included_files |-> {},
     call |-> [filename |-> Root, source |-> files[Root]],
     stack |-> <<>>, result |-> Ok(<<>>)]

(* parse_with_includes, to the loop over the includes: the cycle check,    *)
(* then the lexer and the parser.  The depth of the calls is that of the   *)
(* process's stack.                                                        *)
ParseWithIncludes ==
    /\ loader.pc = "call"
    /\ Len(loader.stack) < MaxDepth
    /\ LET filename == loader.call.filename
           source == loader.call.source
           canonical_path == canonicalize(loader.files, filename)
       IN  IF contains(loader.included_files, canonical_path)
           THEN loader' = [loader EXCEPT !.pc = "failed",
                                         !.result = Err(circular_include(filename))]
           ELSE IF source = Malformed
           THEN loader' = [loader EXCEPT
                              !.pc = "failed",
                              !.included_files = @ \cup {canonical_path},
                              !.result = Err(ParseError("Expected 'define', 'include', or 'section'"))]
           ELSE loader' = [loader EXCEPT
                              !.pc = "includes",
                              !.included_files = @ \cup {canonical_path},
                              !.stack = Append(@, [ast |-> <<filename>>,
                                                   includes |-> source.includes])]
    /\ UNCHANGED <<vmvars, ast, assembler, tool, codecvars, listing, lexer>>

(* resolve_and_parse_include of the next include of the file being read,   *)
(* to its call of parse_with_includes                                      *)
ResolveAndParseInclude ==
    /\ loader.pc = "includes"
    /\ loader.stack[Len(loader.stack)].includes # <<>>
    /\ LET top == Len(loader.stack)
           path == Head(loader.stack[top].includes)
           rest == [loader EXCEPT !.stack[top].includes = Tail(@)]
           full_path == path_join(loader.base_path, path)
           source == read_to_string(loader.files, full_path)
       IN  IF get_stdlib(loader.files, path) # Missing
           THEN loader' = [rest EXCEPT !.pc = "call",
                                       !.call = [filename |-> "stdlib:" \o path,
                                                 source |-> get_stdlib(loader.files, path)]]
           ELSE IF ~source.ok
           THEN loader' = [rest EXCEPT !.pc = "failed", !.result = source]
           ELSE loader' = [rest EXCEPT !.pc = "call",
                                       !.call = [filename |-> full_path,
                                                 source |-> source.val]]
    /\ UNCHANGED <<vmvars, ast, assembler, tool, codecvars, listing, lexer>>

(* parse_with_includes returns Ok(ast) after the last include, and the     *)
(* caller merges it.                                                       *)
ReturnAst ==
    /\ loader.pc = "includes"
    /\ loader.stack[Len(loader.stack)].includes = <<>>
    /\ LET top == Len(loader.stack)
           included_ast == loader.stack[top].ast
       IN  IF top = 1
           THEN loader' = [loader EXCEPT !.pc = "parsed", !.stack = <<>>,
                                         !.result = Ok(included_ast)]
           ELSE loader' = [loader EXCEPT
                              !.stack = [j \in 1..(top - 1) |->
                                            IF j = top - 1
                                            THEN [@[j] EXCEPT !.ast = @ \o included_ast]
                                            ELSE @[j]]]
    /\ UNCHANGED <<vmvars, ast, assembler, tool, codecvars, listing, lexer>>

NextInclude == ParseWithIncludes \/ ResolveAndParseInclude \/ ReturnAst

InitInclude ==
    /\ NoMachine
    /\ ast = [defines |-> <<>>, data_section |-> <<>>, text_section |-> <<>>]
    /\ assembler = [program |-> 0]
    /\ tool = [pc |-> "idle"]
    /\ encoded = <<>>
    /\ decoded = [input |-> [kind |-> "none", n |-> 0]]
    /\ listing = [pc |-> "idle"]
    /\ lexer = [pc |-> "idle"]
    /\ \E files \in FileSystems : loader = Loading(files)

SpecInclude == InitInclude /\ [][NextInclude]_vars

(* The process goes on while a step is left. *)
SpecIncludeFair == SpecInclude /\ WF_vars(NextInclude)

(* The include graph: the texts an include of a file resolves to *)
Includes(name) ==
    IF loader.files[name].k = "text"
    THEN {loader.files[name].includes[j] : j \in 1..Len(loader.files[name].includes)}
    ELSE {}

RECURSIVE Closure(_)
Closure(names) ==
    LET more == names \cup UNION {Includes(name) : name \in names}
    IN  IF more = names THEN names ELSE Closure(more)

Cyclic == \E name \in Closure({Root}) : name \in Closure(Includes(name))

(* Every text of the graph is there and is lexed and parsed. *)
Readable == \A name \in Closure({Root}) : loader.files[name].k = "text"

CircularInclude ==
    /\ loader.pc = "failed"
    /\ loader.result.err.kind = "ParseError"
    /\ \E name \in IncludePaths :
          loader.result.err.message \in
              {"Circular include detected: " \o name,
               "Circular include detected: stdlib:" \o name}

-----------------------------------------------------------------------------
(* Function bodies and how the dispatch loop enters them *)

(* The instruction at index k lies strictly between the FuncBegin and the  *)
(* FuncEnd of function f.                                                  *)
InBody(f, k) ==
    /\ contains_key(program.functions, f)
    /\ program.functions[f].start_ip < k
    /\ k < program.functions[f].end_ip

(* The instruction executed before the one at ip was a jump whose label   *)
(* is bound to ip.                                                         *)
JumpedHere ==
    /\ last.instruction.op \in {"Jmp", "Jz", "Jnz"}
    /\ contains_key(program.labels, last.instruction.label)
    /\ program.labels[last.instruction.label] = ip

(* The instruction at ip, in the body of f, is reached from the body of f, *)
(* by run() entering main, by a Call of f, or by a Return to f.            *)
ReachedByCall(f) ==
    \/ last.instruction = NoInstruction /\ f = "main"
    \/ InBody(f, last.current_ip)
    \/ last.instruction.op = "Call" /\ last.instruction.func = f
    \/ last.instruction.op = "Return"

(* C21 (as claimed): an instruction in the body of a function is executed  *)
(* only after a Call of that function, or after run() entered main.        *)
C21_Claimed ==
    ExecStep => \A f \in DOMAIN program.functions : InBody(f, ip) => ReachedByCall(f)

(* C21: a FuncBegin that the loop runs into moves ip to end_ip + 1 of its  *)
(* function, and an instruction in the body of a function is executed only *)
(* from that body, after run() entered main, after a Call of the function, *)
(* after a Return, or after a jump to a label in the body; never by        *)
(* falling through from the code before the FuncBegin.                     *)
C21_FuncBeginSkips ==
    /\ (pc = "loop" /\ last.instruction.op = "FuncBegin" /\ Succeeded(last))
          => ip = program.functions[last.instruction.name].end_ip + 1
    /\ ExecStep => \A f \in DOMAIN program.functions :
                      InBody(f, ip) => (ReachedByCall(f) \/ JumpedHere)

(* The loop ran from main's FuncEnd into the FuncBegin of f and skipped    *)
(* the body.                                                               *)
C21_Witness ==
    /\ pc = "loop"
    /\ program = [JumpProgram EXCEPT !.instructions = program.instructions]
    /\ last.instruction = FuncBegin("f", "I32")
    /\ last.current_ip = program.functions["f"].start_ip
    /\ ip = program.functions["f"].end_ip + 1

-----------------------------------------------------------------------------
(* Properties of the operations of Value, on the steps that execute them   *)

(* This step executes an instruction whose opcode is one of ops. *)
Executes(ops) == ExecStep /\ last'.instruction.op \in ops

(* The value an operand has before the step. *)
Before(operand) == resolve_operand(Self, operand).val

Unchanged(name) == get_variable(Self, name) = get_variable(Self', name)

(* C22 (as claimed): Lt, Le, Gt and Ge succeed on every pair of operands   *)
(* of the same integer arm or the same float arm, and fail with the        *)
(* type-mismatch error on every other pair.                                *)
C22_Claimed ==
    [][Executes({"Lt", "Le", "Gt", "Ge"}) =>
         LET l == Before(last'.instruction.left)
             rhs == Before(last'.instruction.right)
         IN  IF l.t = rhs.t /\ l.t \in Signed \cup Unsigned \cup Floats
             THEN Succeeded(last')
             ELSE last'.result = "Type mismatch in comparison"]_vars

(* C23 (as claimed): Neg of a float and Mod of two floats of one arm fail  *)
(* and leave the destination as it was.                                    *)
C23_Claimed ==
    [][/\ (Executes({"Neg"}) /\ Before(last'.instruction.source).t \in Floats)
            => (Failed(last') /\ Unchanged(last'.instruction.dest))
       /\ (Executes({"Mod"}) /\ Before(last'.instruction.left).t \in Floats
                             /\ Before(last'.instruction.right).t
                                   = Before(last'.instruction.left).t)
            => (Failed(last') /\ Unchanged(last'.instruction.dest))]_vars

(* C23: Mod of two floats of one arm fails with the modulo error and       *)
(* leaves the destination as it was; Neg of a float succeeds and writes    *)
(* the negated value to the destination.                                   *)
C23_FloatModNeg ==
    [][/\ (Executes({"Mod"}) /\ Before(last'.instruction.left).t \in Floats
                             /\ Before(last'.instruction.right).t
                                   = Before(last'.instruction.left).t)
            => /\ last'.result = "Type mismatch or modulo by zero"
               /\ pc' = "done"
               /\ Unchanged(last'.instruction.dest)
       /\ (Executes({"Neg"}) /\ Before(last'.instruction.source).t \in Floats)
            => /\ Succeeded(last')
               /\ get_variable(Self', last'.instruction.dest).val
                     = Val(Before(last'.instruction.source).t,
                           0 - Before(last'.instruction.source).v)]_vars

(* Mod of two F32 has failed, and d is the F32 it was. *)
C23_Witness ==
    /\ last.instruction.op = "Mod"
    /\ last.instruction.right.val.t = "F32"
    /\ globals["d"] = Val("F32", 3)
    /\ last.result = "Type mismatch or modulo by zero"
    /\ result = last.result

(* C24 (as claimed): Div and Mod on two I32 or two I64 return an error     *)
(* exactly when the divisor is zero and a value of the same arm otherwise, *)
(* and the process is never aborted.                                       *)
C24_Claimed ==
    [][(Executes({"Div", "Mod"}) /\ Before(last'.instruction.left).t \in {"I32", "I64"}
                                 /\ Before(last'.instruction.right).t
                                       = Before(last'.instruction.left).t)
         => /\ pc' # "aborted"
            /\ Failed(last') <=> Before(last'.instruction.right).v = 0
            /\ Succeeded(last') =>
                  get_variable(Self', last'.instruction.dest).val.t
                     = Before(last'.instruction.left).t]_vars

(* The amounts shift_left and shift_right accept. *)
ShiftAmount(v) == (v.t = "I32" /\ v.v >= 0) \/ v.t = "U32"

(* C25: Shl and Shr of a value of an integer arm succeed exactly when the  *)
(* amount is an I32 that is not negative or a U32, and fail without        *)
(* writing the destination otherwise; the result has the arm of the        *)
(* shifted value and is the result of shifting by the amount modulo the    *)
(* bit width w of that arm, which on the arms of 8 and 16 bits is          *)
(* a * 2^(s mod w) reduced to the arm for Shl and a / 2^(s mod w) rounded  *)
(* down for Shr.                                                           *)
C25_Shifts ==
    [][(Executes({"Shl", "Shr"})
          /\ Before(last'.instruction.left).t \in Signed \cup Unsigned)
         => LET l == Before(last'.instruction.left)
                rhs == Before(last'.instruction.right)
                op == last'.instruction.op
                d == get_variable(Self', last'.instruction.dest).val
                s == rhs.v % BITS(l.t)
            IN  IF ~ShiftAmount(rhs)
                THEN /\ last'.result = "Shift amount must be non-negative integer"
                     /\ Unchanged(last'.instruction.dest)
                ELSE /\ Succeeded(last')
                     /\ d.t = l.t
                     /\ op = "Shl" => d = shift_left(l, Val("U32", s)).val
                     /\ op = "Shr" => d = shift_right(l, Val("U32", s)).val
                     /\ (op = "Shl" /\ BITS(l.t) <= 16) => d.v = wrap(l.t, l.v * (2 ^ s))
                     /\ (op = "Shr" /\ BITS(l.t) <= 16) => d.v = l.v \div (2 ^ s)]_vars

(* The I8 3 shifted left by 33 is the I8 6: 3 shifted by 33 mod 8. *)
C25_Witness ==
    /\ last.instruction.op = "Shl"
    /\ last.instruction.right.val = Val("I32", 33)
    /\ program.instructions[3] = SetVar("d", Immediate(Val("I8", 3)))
    /\ globals["d"] = Val("I8", 6)
    /\ Succeeded(last)

(* C26 (as claimed): Cast to a DataType other than Void succeeds for every *)
(* source and writes a value of the target arm; Cast to Void fails.        *)
C26_Claimed ==
    [][Executes({"Cast"}) =>
         IF last'.instruction.target_type # "Void"
         THEN /\ Succeeded(last')
              /\ get_variable(Self', last'.instruction.dest).val.t
                    = last'.instruction.target_type
         ELSE Failed(last')]_vars

(* C26: Cast to an integer or a float arm succeeds for every source and    *)
(* writes a value of the target arm; Cast to Ptr does so exactly when the  *)
(* source is an integer that is not negative or a Ptr, and fails without   *)
(* writing the destination for a negative integer and for a float; Cast to *)
(* Void fails.                                                             *)
C26_Cast ==
    [][Executes({"Cast"}) =>
         LET source == get_variable(Self, last'.instruction.source).val
             target_type == last'.instruction.target_type
             d == get_variable(Self', last'.instruction.dest).val
         IN  CASE target_type = "Void" ->
                    /\ last'.result = "Cannot cast to Void type"
                    /\ Unchanged(last'.instruction.dest)
               [] target_type = "Ptr" /\ (source.t \in Floats
                                          \/ (source.t \in Signed /\ source.v < 0)) ->
                    /\ last'.result = "Cannot convert to usize (negative or invalid type)"
                    /\ Unchanged(last'.instruction.dest)
               [] OTHER -> Succeeded(last') /\ d.t = target_type]_vars

(* A Cast of a negative I32 to Ptr has failed. *)
C26_Witness ==
    /\ last.instruction.op = "Cast"
    /\ last.instruction.target_type = "Ptr"
    /\ globals["d"] = Val("I32", -7)
    /\ last.result = "Cannot convert to usize (negative or invalid type)"

(* C27: PopArg in a frame whose args queue is empty fails with the error   *)
(* "No arguments to pop", leaves the frame's locals and the call stack as  *)
(* they were and ends the run; PopArg in a frame with arguments succeeds,  *)
(* binds the first of them and leaves the rest, one fewer, in the queue.   *)
C27_PopArg ==
    [][Executes({"PopArg"}) =>
         IF current_frame.args = <<>>
         THEN /\ last'.result = "No arguments to pop"
              /\ current_frame' = current_frame
              /\ call_stack' = call_stack
              /\ pc' = "done" /\ result' = last'.result
         ELSE /\ Succeeded(last')
              /\ Len(current_frame'.args) = Len(current_frame.args) - 1
              /\ current_frame'.args = Tail(current_frame.args)
              /\ current_frame'.locals[last'.instruction.dest]
                    = Head(current_frame.args)]_vars

(* f was called with one argument and popped it into a; its second PopArg *)
(* has failed and there is no local b.                                     *)
C27_Witness ==
    /\ last.instruction = PopArg("b")
    /\ last.result = "No arguments to pop"
    /\ call_stack # <<>>
    /\ contains_key(current_frame.locals, "a")
    /\ ~contains_key(current_frame.locals, "b")
    /\ current_frame.args = <<>>

-----------------------------------------------------------------------------
(* Cancellation from the debug callback *)

(* C28 (as claimed): once the debug callback has stopped the machine while *)
(* an instruction was being dispatched, run() returns Ok(0).               *)
C28_Claimed == (last.command = "quit") ~> (pc = "done" /\ result = "Ok(0)")

(* C28: when the debug callback stops the machine while an instruction is  *)
(* being dispatched, that instruction is executed as it would have been on *)
(* the running machine; no later instruction is executed; and run()        *)
(* returns: Ok(0) when that instruction succeeded and that instruction's   *)
(* runtime error when it failed.                                           *)
C28_Cancellation ==
    /\ [][(ExecStep /\ last'.command = "quit") =>
            LET self == [Self EXCEPT !.program.instructions[ip + 1] = last'.instruction]
                r == execute_instruction(self, last'.instruction)
            IN  /\ Self' = [r.val EXCEPT !.running = FALSE]
                /\ last'.result = r.err]_vars
    /\ [][last.command = "quit" =>
            /\ last' = last
            /\ UNCHANGED <<ip, globals, call_stack, current_frame, heap, running>>]_vars
    /\ (last.command = "quit") ~> (pc \in {"done", "aborted"})
    /\ []((last.command = "quit" /\ pc = "done") =>
            result = IF Succeeded(last) THEN "Ok(0)" ELSE last.result)

(* The callback stopped the machine at a write to g that was followed by   *)
(* more instructions; the write was made and run() has returned Ok(0).     *)
C28_Witness ==
    /\ last.command = "quit"
    /\ last.instruction = SetVar("g", I32(1))
    /\ globals["g"] = Val("I32", 1)
    /\ ip = last.current_ip + 1
    /\ ip < Len(program.instructions)
    /\ program.instructions[ip + 1].op # "FuncEnd"
    /\ pc = "done" /\ result = "Ok(0)"

-----------------------------------------------------------------------------
(* The factorial scenario *)

RECURSIVE Factorial(_)
Factorial(n) == IF n <= 1 THEN 1 ELSE n * Factorial(n - 1)

(* The argument main passes, once the run has fixed it. *)
Argument == program.instructions[3].value.val.v

(* The frames of the activations of factorial, outermost first: the saved *)
(* frames above main's, then the current frame.                            *)
Activations == Tail(call_stack) \o <<current_frame>>

(* C29: the run of the factorial program terminates with run() = Ok(0),    *)
(* the global result equal to the I32 factorial of main's argument (120    *)
(* for 5) and an empty call stack; while it runs, the k-th activation of   *)
(* factorial has its own n, the argument less k - 1, and every activation  *)
(* that is waiting for a callee keeps the temp it had when it called.      *)
C29_Factorial ==
    /\ <>(pc = "done")
    /\ [](pc = "done" =>
            /\ result = "Ok(0)"
            /\ globals["result"] = Val("I32", Factorial(Argument))
            /\ Argument = 5 => globals["result"] = Val("I32", 120)
            /\ call_stack = <<>>
            /\ current_frame.locals["n"] = Val("I32", Argument))
    /\ []((pc = "loop" /\ call_stack # <<>>) =>
            \A k \in 1..Len(Activations) :
               /\ contains_key(Activations[k].locals, "n") =>
                     Activations[k].locals["n"] = Val("I32", Argument - (k - 1))
               /\ k < Len(Activations) =>
                     Activations[k].locals["temp"] = Val("I32", 0))

(* The run for the argument 5 has returned with result = 120. *)
C29_Witness ==
    /\ pc = "done" /\ result = "Ok(0)"
    /\ program.instructions[3] = SetVar("n", I32(5))
    /\ globals["result"] = Val("I32", 120)
    /\ call_stack = <<>>

-----------------------------------------------------------------------------
(* Typed stores and loads *)

(* C30: a Load that follows a successful Store through the same pointer    *)
(* and with the same DataType succeeds and leaves its destination equal to *)
(* the value that was stored, for every DataType and every value of its    *)
(* arm; a Store of a value whose arm is not the DataType, through a        *)
(* pointer variable that holds an address, fails with the type-mismatch    *)
(* error and leaves the heap as it was.                                    *)
C30_StoreLoad ==
    [][/\ (/\ Executes({"Load"})
           /\ last.instruction.op = "Store" /\ Succeeded(last)
           /\ last.current_ip + 1 = ip
           /\ last.instruction.ptr = last'.instruction.ptr
           /\ last.instruction.dtype = last'.instruction.dtype)
          => /\ Succeeded(last')
             /\ last.instruction.dtype # "Void"
             /\ get_variable(Self, last.instruction.source).val.t = last.instruction.dtype
             /\ get_variable(Self', last'.instruction.dest).val
                   = get_variable(Self, last.instruction.source).val
       /\ (/\ Executes({"Store"})
           /\ PointerOf(Self, last'.instruction.ptr) >= 0
           /\ get_variable(Self, last'.instruction.source).ok
           /\ get_variable(Self, last'.instruction.source).val.t # last'.instruction.dtype)
          => /\ last'.result = "Type mismatch: cannot store"
             /\ heap' = heap]_vars

(* The F64 5 was stored 4 bytes into the block and loaded back into g. *)
C30_Witness ==
    /\ last.instruction = Load("g", "p", "F64")
    /\ Succeeded(last)
    /\ program.instructions[6] = Store("p", "d", "F64")
    /\ globals["p"] = Val("Ptr", HeapBase + 4)
    /\ globals["d"] = Val("F64", 5)
    /\ globals["g"] = Val("F64", 5)
    /\ SubSeq(heap[HeapBase], 5, 12) = <<0, 0, 0, 0, 0, 0, 20, 64>>

-----------------------------------------------------------------------------
(* lexer.rs, on characters: Lexer::tokenize as its loop runs, on every     *)
(* input of up to MaxChars characters of Characters.  position counts from *)
(* 0 as in the source; input[position + 1] is the current character.       *)

MaxChars == 4

Characters == {" ", "\n", ";", "a", "1", "-", "\"", "#"}

Inputs == UNION {[1..n -> Characters] : n \in 0..MaxChars}

Lexer_new(input) ==
    [pc |-> "tokenize", input |-> input, position |-> 0, tokens |-> <<>>,
     result |-> Ok(0)]

Lexer_is_at_end(self) == self.position >= Len(self.input)

current_char(self) == self.input[self.position + 1]

(* The position after the longest run of characters of set from position. *)
after_run(self, set) ==
    CHOOSE q \in self.position..Len(self.input) :
        /\ \A j \in (self.position + 1)..q : self.input[j] \in set
        /\ q = Len(self.input) \/ self.input[q + 1] \notin set

(* The characters from start up to the position, as a string. *)
RECURSIVE collected_string(_, _, _)
collected_string(input, start, position) ==
    IF start >= position THEN ""
    ELSE input[start + 1] \o collected_string(input, start + 1, position)

skip_whitespace_except_newline(self) ==
    [self EXCEPT !.position = after_run(self, {" ", "\t", "\r"})]

Lexed(self, token) == Ok([lexer |-> self, token |-> token])

Lexer_read_comment(self) ==
    LET end == after_run([self EXCEPT !.position = @ + 1], Characters \ {"\n"})
    IN  Lexed([self EXCEPT !.position = end],
              Token("Comment", collected_string(self.input, self.position + 1, end)))

Lexer_read_string(self) ==
    LET end == after_run([self EXCEPT !.position = @ + 1], Characters \ {"\"", "\n"})
    IN  IF end >= Len(self.input) \/ self.input[end + 1] = "\n"
        THEN Err("Unterminated string literal")
        ELSE Lexed([self EXCEPT !.position = end + 1],
                   Token("String", collected_string(self.input, self.position + 1, end)))

(* read_number reads the character after a minus sign without looking for *)
(* the end of the input: indexing the Vec there panics.                    *)
Lexer_read_number(self) ==
    LET signed == IF current_char(self) = "-"
                  THEN [self EXCEPT !.position = @ + 1] ELSE self
    IN  IF Lexer_is_at_end(signed) THEN Err("index out of bounds")
        ELSE LET end == after_run(signed, {"1"})
                 num_str == collected_string(self.input, self.position, end)
             IN  IF end = signed.position THEN Err("Invalid integer: " \o num_str)
                 ELSE Lexed([self EXCEPT !.position = end], Token("Integer", num_str))

Lexer_read_identifier_or_keyword(self) ==
    LET end == after_run(self, {"a", "1", "_"})
    IN  Lexed([self EXCEPT !.position = end],
              Token("Identifier", collected_string(self.input, self.position, end)))

next_token(self) ==
    IF Lexer_is_at_end(self) THEN Lexed(self, Token("Eof", ""))
    ELSE LET ch == current_char(self)
         IN  CASE ch = ";" -> Lexer_read_comment(self)
               [] ch = "\n" -> Lexed([self EXCEPT !.position = @ + 1], Token("Newline", ""))
               [] ch = "\"" -> Lexer_read_string(self)
               [] ch \in {"-", "1"} -> Lexer_read_number(self)
               [] ch \in {"a", "_"} -> Lexer_read_identifier_or_keyword(self)
               [] OTHER -> Err("Unexpected character: " \o ch)

(* tokenize's match on the token pushing every Newline. *)
push_every_newline(tokens, token) ==
    CASE token.t = "Comment" -> tokens
      [] OTHER -> Append(tokens, token)

(* tokenize's match on the token next_token returned *)
push(tokens, token) ==
    CASE token.t = "Comment" -> tokens
      [] token.t = "Newline" ->
            IF tokens # <<>> /\ tokens[Len(tokens)].t # "Newline"
            THEN Append(tokens, token) ELSE tokens
      [] OTHER -> Append(tokens, token)

LexerQuiet ==
    /\ NoMachine
    /\ ast = [defines |-> <<>>, data_section |-> <<>>, text_section |-> <<>>]
    /\ assembler = [program |-> 0]
    /\ tool = [pc |-> "idle"]
    /\ encoded = <<>>
    /\ decoded = [input |-> [kind |-> "none", n |-> 0]]
    /\ listing = [pc |-> "idle"]
    /\ loader = [pc |-> "idle"]

(* One iteration of tokenize's loop *)
TokenizeStep ==
    /\ lexer.pc = "tokenize"
    /\ ~Lexer_is_at_end(lexer)
    /\ LET self == skip_whitespace_except_newline(lexer)
           r == next_token(self)
       IN  lexer' = CASE Lexer_is_at_end(self) -> self
                      [] ~Lexer_is_at_end(self) /\ r.ok ->
                            [r.val.lexer EXCEPT !.tokens = push(@, r.val.token)]
                      [] ~Lexer_is_at_end(self) /\ ~r.ok /\ r.err = "index out of bounds" ->
                            [self EXCEPT !.pc = "aborted"]
                      [] OTHER -> [self EXCEPT !.pc = "returned", !.result = Err(r.err)]
    /\ UNCHANGED <<vmvars, ast, assembler, tool, codecvars, listing, loader>>

(* The end of the loop: Eof is pushed and the tokens returned. *)
TokenizeReturn ==
    /\ lexer.pc = "tokenize"
    /\ Lexer_is_at_end(lexer)
    /\ lexer' = [lexer EXCEPT !.tokens = Append(@, Token("Eof", "")),
                              !.pc = "returned", !.result = Ok(0)]
    /\ UNCHANGED <<vmvars, ast, assembler, tool, codecvars, listing, loader>>

NextLex == TokenizeStep \/ TokenizeReturn

InitLex == LexerQuiet /\ \E input \in Inputs : lexer = Lexer_new(input)

SpecLex == InitLex /\ [][NextLex]_vars

(* C31: the tokens of tokenize never hold two adjacent Newline tokens nor  *)
(* a Comment token, and the token stream it returns ends with an Eof that  *)
(* is its only Eof.                                                        *)
C31_NewlineDiscipline ==
    lexer.pc # "idle" =>
       LET tokens == lexer.tokens IN
       /\ \A j \in 1..(Len(tokens) - 1) :
             ~(tokens[j].t = "Newline" /\ tokens[j + 1].t = "Newline")
       /\ \A j \in 1..Len(tokens) : tokens[j].t # "Comment"
       /\ (lexer.pc = "returned" /\ lexer.result.ok) =>
             /\ tokens # <<>>
             /\ tokens[Len(tokens)].t = "Eof"
             /\ \A j \in 1..(Len(tokens) - 1) : tokens[j].t # "Eof"
       /\ lexer.pc = "tokenize" => \A j \in 1..Len(tokens) : tokens[j].t # "Eof"

(* A line, then a line that holds only a comment: one Newline is returned. *)
C31_Witness ==
    /\ lexer.pc = "returned" /\ lexer.result.ok
    /\ lexer.input = <<"a", "\n", ";", "\n">>
    /\ lexer.tokens = <<Token("Identifier", "a"), Token("Newline", ""), Token("Eof", "")>>

-----------------------------------------------------------------------------
(* Labels, local labels and return types in assembled images *)

(* C32 (as claimed): in every assembled image each Label instruction, at   *)
(* index i and with name L, has the label-table entry L -> i, and each     *)
(* label-table entry L -> i has the instruction Label{L} at index i.       *)
C32_Claimed ==
    Assembled =>
       /\ \A i \in At({"Label"}) :
             LET L == image.instructions[i + 1].name
             IN  contains_key(image.labels, L) /\ image.labels[L] = i
       /\ \A L \in DOMAIN image.labels :
             /\ image.labels[L] < Len(image.instructions)
             /\ image.instructions[image.labels[L] + 1] = Label(L)

(* Two functions, the first named f and the second a or f, each with two   *)
(* statements that define or jump to the local label .l                    *)
InitScope ==
    Assembling(<<"f", "func_begin", "scoped", "scoped", "func_end",
                 "name", "func_begin", "scoped", "scoped", "func_end">>, 0)

SpecScope == InitScope /\ [][NextAsm]_vars

(* The FuncBegin that opens and the FuncEnd that closes the body holding   *)
(* the instruction at index j: the nearest ones with no other between.     *)
Opening(j) ==
    {b \in At({"FuncBegin"}) :
        /\ b < j
        /\ \A m \in (b + 1)..(j - 1) :
              image.instructions[m + 1].op \notin {"FuncBegin", "FuncEnd"}}

Closing(j) ==
    {e \in At({"FuncEnd"}) :
        /\ j < e
        /\ \A m \in (j + 1)..(e - 1) :
              image.instructions[m + 1].op \notin {"FuncBegin", "FuncEnd"}}

(* The label operand a jump statement was written with *)
Target(j) ==
    LET statement == ast.text_section[j + 1]
    IN  statement.operands[Len(statement.operands)].name

(* C33 (as claimed): a jump to a local label .x written between the        *)
(* func_begin and the func_end of f is assembled to f:.x, which is the     *)
(* name of every label .x defined between the same func_begin and          *)
(* func_end, and the label table does not resolve it to a Label outside    *)
(* them.                                                                   *)
C33_Claimed ==
    Assembled =>
       \A j \in At({"Jmp", "Jz", "Jnz"}) : \A b \in Opening(j) : \A e \in Closing(j) :
          starts_with(Target(j), ".") =>
             LET label == image.instructions[j + 1].label IN
             /\ label = image.instructions[b + 1].name \o ":" \o Target(j)
             /\ \A m \in (b + 1)..(e - 1) :
                   ast.text_section[m + 1] = StatementLabel(Target(j))
                      => image.instructions[m + 1] = Label(label)
             /\ contains_key(image.labels, label) =>
                   b < image.labels[label] /\ image.labels[label] < e

(* One function, of any return type, with one statement *)
InitFunc == Assembling(<<"f", "typed_begin", "any", "func_end">>, 0)

SpecFunc == InitFunc /\ [][NextAsm]_vars

(* C34 (as claimed): in every assembled image the return_type of each      *)
(* function-table entry is the return_type of the FuncBegin instruction    *)
(* at its start_ip, the type written after func_begin.                     *)
C34_Claimed ==
    Assembled =>
       \A name \in DOMAIN image.functions :
          LET func == image.functions[name]
              begin == image.instructions[func.start_ip + 1]
          IN  /\ begin.op = "FuncBegin"
              /\ begin.return_type
                    = TypeKeywords[ast.text_section[func.start_ip + 1].operands[1].name]
              /\ func.return_type = begin.return_type

-----------------------------------------------------------------------------
(* Function breakpoints *)

(* C35 (as claimed): once break <func> has set its breakpoint and the host *)
(* has installed a callback, every Call that enters the function is        *)
(* followed by the callback, invoked before the first instruction of the   *)
(* function's body executes.                                               *)
C35_Claimed ==
    (/\ pc = "loop"
     /\ last.instruction.op = "Call" /\ Succeeded(last)
     /\ program.functions[last.instruction.func].start_ip \in breakpoints
     /\ debug_callback # None)
    => (ExecStep /\ Commands = DebugCommands)

-----------------------------------------------------------------------------
(* Allocation freshness *)

(* C36 (as claimed): every Alloc that succeeds returns a base address at   *)
(* or above HeapBase that no block of the heap, allocated earlier and      *)
(* still live, already has, sizes of 0 included.                           *)
C36_Claimed ==
    [][(Executes({"Alloc"}) /\ Succeeded(last'))
          => /\ next_heap_addr >= HeapBase
             /\ ~contains_key(heap, next_heap_addr)]_vars

-----------------------------------------------------------------------------
(* Error atomicity *)

(* C37 (as claimed): an instruction that returns a runtime error leaves    *)
(* the globals, the current frame, the call stack, the heap and            *)
(* next_heap_addr as they were before it.                                  *)
C37_Claimed ==
    [][(ExecStep /\ Failed(last') /\ pc' = "done")
          => /\ globals' = globals
             /\ current_frame' = current_frame
             /\ call_stack' = call_stack
             /\ heap' = heap
             /\ next_heap_addr' = next_heap_addr]_vars

-----------------------------------------------------------------------------
(* Frame isolation *)

(* The VM with the locals and args of every saved frame blanked. *)
Scrubbed(self) ==
    [self EXCEPT !.call_stack =
        [j \in 1..Len(@) |-> [@[j] EXCEPT !.locals = <<>>, !.args = <<>>]]]

(* The instruction of the step, executed without sight of the saved frames. *)
Blind ==
    execute_instruction(
        Scrubbed([Self EXCEPT !.program.instructions[ip + 1] = last'.instruction]),
        last'.instruction)

(* C38: the frames saved on the call stack are out of the reach of the     *)
(* callee.  No instruction changes a saved frame; every instruction but    *)
(* Return has the result, globals and current frame it would have with the *)
(* saved frames blanked (it reads none of them), and so has the value a    *)
(* Return resolves; a Call saves the caller's                              *)
(* locals and args as they are, and the Return that pops the frame gives   *)
(* them back unchanged, the return destination excepted.                   *)
C38_FrameIsolation ==
    [][ExecStep =>
         LET depth == Len(call_stack)
             kept == IF Len(call_stack') < depth THEN Len(call_stack') ELSE depth
         IN  /\ \A j \in 1..kept : call_stack'[j] = call_stack[j]
             /\ last'.instruction.op # "Return"
                   => /\ Blind.err = last'.result
                      /\ Blind.val.globals = globals'
                      /\ Blind.val.current_frame = current_frame'
             /\ (last'.instruction.op = "Return" /\ last'.instruction.value # NoOperand)
                   => resolve_operand(Scrubbed(Self), last'.instruction.value)
                         = resolve_operand(Self, last'.instruction.value)
             /\ Len(call_stack') > depth
                   => /\ call_stack'[depth + 1].locals = current_frame.locals
                      /\ call_stack'[depth + 1].args = current_frame.args
             /\ Len(call_stack') < depth
                   => LET frame == call_stack[depth] IN
                      /\ current_frame'.args = frame.args
                      /\ DOMAIN current_frame'.locals = DOMAIN frame.locals
                      /\ \A name \in DOMAIN frame.locals :
                            \/ name = frame.return_dest
                            \/ current_frame'.locals[name] = frame.locals[name]]_vars

(* f, which made a local r of its own and failed to read main's x or      *)
(* returned a value, has returned to main, whose x is 1 as at the Call and *)
(* whose r holds what f returned.                                          *)
C38_Witness ==
    /\ pc = "loop"
    /\ last.instruction.op = "Return" /\ Succeeded(last)
    /\ call_stack = <<>> /\ running
    /\ current_frame.function_name = "main"
    /\ contains_key(current_frame.locals, "r")
    /\ current_frame.locals["x"] = Val("I32", 1)
    /\ current_frame.locals["r"].v # 0
    /\ program.instructions[last.current_ip - 1] = CreateLocal("I32", "r")

-----------------------------------------------------------------------------
(* Include graphs without a cycle *)

(* C39 (as claimed): assembling a root whose include graph has no cycle    *)
(* never fails with a "Circular include" error, a text reached along two   *)
(* chains or named by two include statements included.                     *)
C39_Claimed == ~Cyclic => ~CircularInclude

-----------------------------------------------------------------------------
(* Declared types *)

(* Every global the image declares holds a value of the arm of its type. *)
DeclaredArms ==
    \A j \in 1..Len(program.globals) :
       contains_key(globals, program.globals[j].name)
          => globals[program.globals[j].name].t
                = default_value(program.globals[j].dtype).t

(* C40 (as claimed): once the VM is constructed every declared global      *)
(* holds a value of the arm of its declared type, and no instruction that  *)
(* writes a variable changes the arm of a global or of a local of the      *)
(* frame it runs in.                                                       *)
C40_Claimed ==
    [][/\ pc' # "new" => DeclaredArms'
       /\ (ExecStep /\ ~(last'.instruction.op \in {"CreateLocal", "CreateGlobal"}))
             => /\ \A name \in DOMAIN globals \cap DOMAIN globals' :
                      globals'[name].t = globals[name].t
                /\ Len(call_stack') = Len(call_stack)
                      => \A name \in DOMAIN current_frame.locals
                                       \cap DOMAIN current_frame'.locals :
                            current_frame'.locals[name].t
                               = current_frame.locals[name].t]_vars

====
